---- MODULE Spec2Model ----
(***************************************************************************)
(* CarbonCoin ledger and trade engine (src/blockchain.py, src/wallet.py,   *)
(* src/company_token.py) as a state machine.                                *)
(*                                                                         *)
(* Python dicts are functions whose DOMAIN is the set of keys present, so  *)
(* "key in dict" is "key \in DOMAIN dict" and dict.get(key) on a missing   *)
(* key is modelled explicitly.  Lists are sequences.  SHA-256 is modelled  *)
(* by a polynomial digest of the serialised block, rendered as HashLen hex *)
(* digits; money is counted in cents.                                      *)
(***************************************************************************)
EXTENDS Integers, Sequences, FiniteSets, TLC

VARIABLES
    chain,                \* CarbonCoinBlockchain.chain: the blocks, genesis first
    pending_transactions, \* CarbonCoinBlockchain.pending_transactions
    difficulty,           \* CarbonCoinBlockchain.difficulty
    balances,             \* CarbonCoinBlockchain.balances: address -> token -> amount
    registered_tokens,    \* CarbonCoinBlockchain.registered_tokens: symbol -> token
    wallets,              \* WalletManager.wallets: username -> wallet
    now,                  \* what time() returns
    nextId,               \* the next fresh uuid4, counted
    ret,                  \* what the last call returned or raised
    running,              \* IoTSimulator.running: the platform process is up
    last_update_time,     \* IoTSimulator.last_update_time: symbol -> time
    storage_file,         \* the JSON file TokenStorage writes and reads
    storage_data,         \* TokenStorage.data, read from the file at start
    performed,            \* history: symbol -> time of its last daily update
    devices,              \* device threads of the feed: symbol -> position
                          \* and locals of its simulate_device
    threads,              \* request threads: position and locals of each
    aliased               \* indices of the blocks of the chain whose
                          \* transactions are the pending list object itself

\* the emission feed and its storage
feedVars ==
    <<running, last_update_time, storage_file, storage_data, performed,
      devices>>

\* the request threads of the web server
raceVars == <<threads, aliased>>

vars == <<chain, pending_transactions, difficulty, balances,
          registered_tokens, wallets, now, nextId, ret, feedVars, raceVars>>

----------------------------------------------------------------------------
(* Bounds of the model *)

\* number of hex digits of a digest (hexdigest() has 64)
HashLen == 2
\* transactions ever admitted to the pending queue
MaxTx == 2
\* last value of the clock read by time()
MaxTime == 1
\* trades ever recorded in a token's trade log
MaxTrades == 2
\* candles the bootstrap of a token generates (the generator makes 100)
SeedCandles == 1

----------------------------------------------------------------------------
(* Input domains *)

\* the difficulty argument of the constructor, scaled to HashLen digits
Difficulties == {1}
Users == {"alice", "bob"}
Tokens == {"TKA"}
Amounts == {1, 2}
\* what a trade request may name: a token that is not registered, a user
\* without a wallet, a quantity of nothing or below nothing
TradeSymbols == Tokens \cup {"TKX"}
TradeUsers == {"alice", "carol"}
Quantities == {-1, 0, 1, 2}
\* the (username, token_symbol, amount) of the trade requests made
TradeRequests ==
    { <<"alice", s, q>> : s \in Tokens, q \in Quantities }
        \cup { <<"carol", s, 1>> : s \in Tokens }
        \cup { <<"alice", "TKX", 1>> }
\* initial_balance of create_wallet, and the price a token starts at, in cents
InitialBalances == {25000}
\* initial_balance of create_wallet on the wallet routes: the default and
\* another
OpeningBalances == {10000, 25000}
SeedPrice == 10000
\* what the price feed sets a price to
Prices == {9000, 10000, 11000}
\* the symbol and initial_supply a token is created with, the session role
NewSymbols == {"TKA", "tka"}
Supplies == {2, 3}
Roles == {"admin", "user"}
\* emission readings, in tonnes
Emissions == {900, 1100}
\* arguments of calculate_price_update: current prices in cents, emission
\* performances in thousandths, trading volumes, sentiments in hundredths
EnginePrices == {0, 1, 5, 101, 2995, 10000, 12345}
Performances == {0, 800, 1000, 1200, 2500, 1000000}
Volumes == {0, 1, 100}
Sentiments == {0, 50, 100}
NoType == "NONE"

EmptyDict == [k \in {} |-> 0]

Put(d, k, v) == [x \in (DOMAIN d) \cup {k} |-> IF x = k THEN v ELSE d[x]]

\* transaction.get('type')
TypeOf(transaction) ==
    IF "type" \in DOMAIN transaction THEN transaction["type"] ELSE NoType

\* the dicts callers hand to create_transaction: plain transfers, BUY and
\* SELL records as the wallet builds them (sender = receiver), records sent
\* by MINT and SYSTEM, and a dict without 'amount'
TransferInputs ==
    { [from_address |-> "alice", to_address |-> "bob", amount |-> a,
       token_symbol |-> s] : a \in Amounts, s \in Tokens }

TypedInputs ==
    { [type |-> "BUY", from_address |-> "alice", to_address |-> "alice",
       amount |-> 1, token_symbol |-> s] : s \in Tokens }
    \cup
    { [type |-> "SELL", from_address |-> "alice", to_address |-> "alice",
       amount |-> a, token_symbol |-> s] : a \in Amounts, s \in Tokens }

MintInputs ==
    { [type |-> "MINT", from_address |-> "MINT", to_address |-> "alice",
       amount |-> a, token_symbol |-> s] : a \in Amounts, s \in Tokens }
    \cup
    { [type |-> "SELL", from_address |-> "MINT", to_address |-> "alice",
       amount |-> 1, token_symbol |-> s] : s \in Tokens }

SystemInputs ==
    { [from_address |-> "SYSTEM", to_address |-> "bob", amount |-> 1,
       token_symbol |-> s] : s \in Tokens }

MalformedInputs ==
    { [from_address |-> "alice", to_address |-> "bob", token_symbol |-> s] :
        s \in Tokens }

TxInputs ==
    TransferInputs \cup TypedInputs \cup MintInputs \cup SystemInputs
        \cup MalformedInputs

----------------------------------------------------------------------------
(* Block hashing: Block.calculate_hash *)

HashMod == 16 ^ HashLen

\* the characters of a string value, as a number
Code(s) ==
    CASE s = "MINT" -> 11 [] s = "SYSTEM" -> 12 [] s = "alice" -> 13
      [] s = "bob" -> 14 [] s = "TKA" -> 21 [] s = "TKB" -> 22
      [] s = "BUY" -> 31 [] s = "SELL" -> 32 [] s = "TRANSFER" -> 33
      [] s = "w-alice" -> 41 [] s = "w-carol" -> 42
      [] OTHER -> 7

StringKeys == {"from_address", "to_address", "token_symbol", "type"}

\* what json.dumps writes for key k of a transaction: nothing when absent
Field(transaction, k) ==
    IF k \notin DOMAIN transaction THEN 0
    ELSE IF k \in StringKeys THEN Code(transaction[k]) + 1
    ELSE transaction[k] + 1

\* one step of the digest over the serialised text
Mix(h, x) == (h * 31 + x) % HashMod

\* a transaction dict, its keys in sort_keys order
DigestTx(h, transaction) ==
    LET h1 == Mix(h, Field(transaction, "amount"))
        h2 == Mix(h1, Field(transaction, "fee"))
        h3 == Mix(h2, Field(transaction, "from_address"))
        h4 == Mix(h3, Field(transaction, "id"))
        h5 == Mix(h4, Field(transaction, "price"))
        h6 == Mix(h5, Field(transaction, "timestamp"))
        h7 == Mix(h6, Field(transaction, "to_address"))
        h8 == Mix(h7, Field(transaction, "token_symbol"))
    IN  Mix(h8, Field(transaction, "type"))

RECURSIVE DigestTxs(_, _, _)
DigestTxs(h, transactions, i) ==
    IF i > Len(transactions) THEN h
    ELSE DigestTxs(DigestTx(Mix(h, 5), transactions[i]), transactions, i + 1)

RECURSIVE DigestDigits(_, _, _)
DigestDigits(h, digits, i) ==
    IF i > Len(digits) THEN h
    ELSE DigestDigits(Mix(h, digits[i] + 1), digits, i + 1)

\* hexdigest(): HashLen hex digits, most significant first
HexDigest(n) ==
    [i \in 1..HashLen |-> (n \div (16 ^ (HashLen - i))) % 16]

\* the digest of everything json.dumps(..., sort_keys=True) writes for the
\* block except the nonce: index, previous_hash, timestamp, transactions
ContentDigest(block) ==
    LET h1 == Mix(1, block.index)
        h2 == DigestDigits(h1, block.previous_hash, 1)
        h3 == Mix(h2, block.timestamp)
    IN  DigestTxs(h3, block.transactions, 1)

\* the nonce moves the digest by an odd stride, so that the digests of the
\* successive nonces spread over the whole range
NonceStride == 16 ^ (HashLen - 1) - 1

\* sha256(...).hexdigest() of a block with that content and that nonce
HashOf(content, nonce) ==
    HexDigest((content * 31 + nonce * NonceStride) % HashMod)

calculate_hash(block) == HashOf(ContentDigest(block), block.nonce)

\* Block.__init__
Block(index, transactions, timestamp, previous_hash) ==
    LET b == [index |-> index, transactions |-> transactions,
              timestamp |-> timestamp, previous_hash |-> previous_hash,
              nonce |-> 0, hash |-> <<>>]
    IN  [b EXCEPT !.hash = calculate_hash(b)]

\* hash.startswith('0' * d)
StartsWithZeros(hash, d) ==
    /\ d <= Len(hash)
    /\ \A i \in 1..d : hash[i] = 0

\* a mine that appends the candidate block as constructed
ProofOfWork_skipped(block, d) == block

\* the proof-of-work loop of mine_pending_transactions: while the hash lacks
\* the prefix, nonce += 1 and the hash is recomputed.  The loop leaves at the
\* first nonce, counting up from block.nonce, whose hash has the prefix; the
\* content of the block does not change in the loop, so its digest is taken
\* once.  (Mix is a bijection of the nonce modulo HashMod, so a nonce is
\* found within HashMod steps whenever d <= HashLen.)
ProofOfWork(block, d) ==
    LET content == ContentDigest(block)
        Sealed(n) == StartsWithZeros(HashOf(content, n), d)
        nonce == CHOOSE n \in block.nonce..(block.nonce + HashMod) :
                     Sealed(n) /\ \A m \in block.nonce..(n - 1) : ~Sealed(m)
    IN  [block EXCEPT !.nonce = nonce, !.hash = HashOf(content, nonce)]

\* a get_latest_block that returns the first block
get_latest_block_first(ch) == ch[1]

get_latest_block(ch) == ch[Len(ch)]

----------------------------------------------------------------------------
(* Balance ledger *)

get_balance(bals, address, token_symbol) ==
    IF address \notin DOMAIN bals THEN 0
    ELSE IF token_symbol \in DOMAIN bals[address]
         THEN bals[address][token_symbol] ELSE 0

\* a validation that checks the fields only
_validate_transaction_fields_only(transaction, bals) ==
    {"from_address", "to_address", "amount", "token_symbol"}
        \subseteq DOMAIN transaction

_validate_transaction(transaction, bals) ==
    LET required_fields == {"from_address", "to_address", "amount", "token_symbol"}
    IN
    IF ~(required_fields \subseteq DOMAIN transaction) THEN FALSE
    ELSE IF transaction.from_address \in {"MINT", "SYSTEM"} THEN TRUE
    ELSE IF TypeOf(transaction) = "BUY" THEN TRUE
    ELSE IF TypeOf(transaction) = "SELL" THEN
        LET from_addr == transaction.from_address
            token == transaction.token_symbol
            amount == transaction.amount
        IN  IF from_addr \notin DOMAIN bals THEN FALSE
            ELSE IF token \notin DOMAIN bals[from_addr] THEN FALSE
            ELSE IF bals[from_addr][token] < amount THEN FALSE
            ELSE TRUE
    ELSE TRUE

\* bals[addr][token] is created with 0 when absent
Ensure(bals, addr, token) ==
    LET b1 == IF addr \in DOMAIN bals THEN bals ELSE Put(bals, addr, EmptyDict)
    IN  IF token \in DOMAIN b1[addr] THEN b1
        ELSE Put(b1, addr, Put(b1[addr], token, 0))

Add(bals, addr, token, delta) ==
    Put(bals, addr, Put(bals[addr], token, bals[addr][token] + delta))

\* an _update_balances without the SELL branch: a SELL falls through to the
\* transfer and mint branches
_update_balances_sell_as_transfer(bals, transaction) ==
    LET from_addr == transaction.from_address
        to_addr == transaction.to_address
        token == transaction.token_symbol
        amount == transaction.amount
        b0 == Ensure(bals, to_addr, token)
    IN
    IF TypeOf(transaction) = "BUY" THEN Add(b0, to_addr, token, amount)
    ELSE IF from_addr \notin {"MINT", "SYSTEM"} THEN
        LET b1 == Ensure(b0, from_addr, token)
            b2 == Add(b1, from_addr, token, -amount)
        IN  Add(b2, to_addr, token, amount)
    ELSE Add(b0, to_addr, token, amount)

_update_balances(bals, transaction) ==
    LET from_addr == transaction.from_address
        to_addr == transaction.to_address
        token == transaction.token_symbol
        amount == transaction.amount
        b0 == Ensure(bals, to_addr, token)
    IN
    IF TypeOf(transaction) = "BUY" THEN Add(b0, to_addr, token, amount)
    ELSE IF TypeOf(transaction) = "SELL" THEN
        IF from_addr \in DOMAIN b0 /\ token \in DOMAIN b0[from_addr]
        THEN Add(b0, from_addr, token, -amount)
        ELSE b0
    ELSE IF from_addr \notin {"MINT", "SYSTEM"} THEN
        LET b1 == Ensure(b0, from_addr, token)
            b2 == Add(b1, from_addr, token, -amount)
        IN  Add(b2, to_addr, token, amount)
    ELSE Add(b0, to_addr, token, amount)

\* for tx in self.pending_transactions: self._update_balances(tx)
RECURSIVE ProcessTransactions(_, _, _)
ProcessTransactions(bals, transactions, i) ==
    IF i > Len(transactions) THEN bals
    ELSE ProcessTransactions(_update_balances(bals, transactions[i]),
                             transactions, i + 1)

is_chain_valid(ch, d) ==
    \A i \in 2..Len(ch) :
        /\ ch[i].hash = calculate_hash(ch[i])
        /\ ch[i].previous_hash = ch[i - 1].hash
        /\ StartsWithZeros(ch[i].hash, d)

----------------------------------------------------------------------------
(* Operations of CarbonCoinBlockchain *)

\* create_genesis_block
GenesisBlock(t) == Block(0, <<>>, t, <<0>>)

\* transaction['id'] = str(uuid.uuid4()); transaction['timestamp'] = time()
Stamp(transaction, id, t) == Put(Put(transaction, "id", id), "timestamp", t)

\* a create_transaction that queues the dict before it validates it
create_transaction_queue_first(transaction) ==
    LET tx1 == Stamp(transaction, nextId, now)
    IN  /\ nextId <= MaxTx
        /\ pending_transactions' = Append(pending_transactions, tx1)
        /\ nextId' = nextId + 1
        /\ ret' = IF _validate_transaction(tx1, balances) THEN "id" ELSE "ValueError"
        /\ UNCHANGED <<chain, difficulty, balances, registered_tokens,
                       wallets, now, feedVars, raceVars>>

\* a create_transaction that credits and debits the ledger on admission
create_transaction_applying(transaction) ==
    LET tx1 == Stamp(transaction, nextId, now)
    IN
    IF ~_validate_transaction(tx1, balances)
    THEN /\ ret' = "ValueError"
         /\ UNCHANGED <<chain, pending_transactions, difficulty, balances,
                        registered_tokens, wallets, now, nextId, feedVars, raceVars>>
    ELSE /\ nextId <= MaxTx
         /\ pending_transactions' = Append(pending_transactions, tx1)
         /\ balances' = _update_balances(balances, tx1)
         /\ nextId' = nextId + 1
         /\ ret' = "id"
         /\ UNCHANGED <<chain, difficulty, registered_tokens, wallets, now, feedVars, raceVars>>

create_transaction(transaction) ==
    LET tx1 == Stamp(transaction, nextId, now)
    IN
    IF ~_validate_transaction(tx1, balances)
    THEN /\ ret' = "ValueError"
         /\ UNCHANGED <<chain, pending_transactions, difficulty, balances,
                        registered_tokens, wallets, now, nextId, feedVars, raceVars>>
    ELSE /\ nextId <= MaxTx
         /\ pending_transactions' = Append(pending_transactions, tx1)
         /\ nextId' = nextId + 1
         /\ ret' = "id"
         /\ UNCHANGED <<chain, difficulty, balances, registered_tokens,
                        wallets, now, feedVars, raceVars>>

\* a mine that seals one transaction per block
mine_one_transaction(miner_address) ==
    IF pending_transactions = <<>>
    THEN /\ ret' = "False"
         /\ UNCHANGED <<chain, pending_transactions, difficulty, balances,
                        registered_tokens, wallets, now, nextId, feedVars, raceVars>>
    ELSE LET block == ProofOfWork(
                          Block(Len(chain), <<Head(pending_transactions)>>, now,
                                get_latest_block(chain).hash),
                          difficulty)
         IN  /\ chain' = Append(chain, block)
             /\ balances' = _update_balances(balances, Head(pending_transactions))
             /\ pending_transactions' = Tail(pending_transactions)
             /\ ret' = "True"
             /\ UNCHANGED <<difficulty, registered_tokens, wallets, now, nextId, feedVars, raceVars>>

\* a mine without the test for an empty queue
mine_without_guard(miner_address) ==
    LET block == ProofOfWork(
                     Block(Len(chain), pending_transactions, now,
                           get_latest_block(chain).hash),
                     difficulty)
    IN  /\ Len(chain) <= MaxTx
        /\ chain' = Append(chain, block)
        /\ balances' = ProcessTransactions(balances, pending_transactions, 1)
        /\ pending_transactions' = <<>>
        /\ ret' = "True"
        /\ UNCHANGED <<difficulty, registered_tokens, wallets, now, nextId, feedVars, raceVars>>

\* a mine that puts its block in the place of the latest mined block
mine_replacing_latest(miner_address) ==
    IF pending_transactions = <<>>
    THEN /\ ret' = "False"
         /\ UNCHANGED <<chain, pending_transactions, difficulty, balances,
                        registered_tokens, wallets, now, nextId, feedVars, raceVars>>
    ELSE LET block == ProofOfWork(
                          Block(Len(chain), pending_transactions, now,
                                get_latest_block(chain).hash),
                          difficulty)
         IN  /\ chain' = IF Len(chain) > 1
                         THEN [chain EXCEPT ![Len(chain)] = block]
                         ELSE Append(chain, block)
             /\ balances' = ProcessTransactions(balances, pending_transactions, 1)
             /\ pending_transactions' = <<>>
             /\ ret' = "True"
             /\ UNCHANGED <<difficulty, registered_tokens, wallets, now, nextId, feedVars, raceVars>>

mine_pending_transactions(miner_address) ==
    IF pending_transactions = <<>>
    THEN /\ ret' = "False"
         /\ UNCHANGED <<chain, pending_transactions, difficulty, balances,
                        registered_tokens, wallets, now, nextId, feedVars, raceVars>>
    ELSE LET block == ProofOfWork(
                          Block(Len(chain), pending_transactions, now,
                                get_latest_block(chain).hash),
                          difficulty)
         IN  /\ chain' = Append(chain, block)
             /\ balances' = ProcessTransactions(balances, pending_transactions, 1)
             /\ pending_transactions' = <<>>
             /\ ret' = "True"
             /\ UNCHANGED <<difficulty, registered_tokens, wallets, now, nextId, feedVars, raceVars>>

----------------------------------------------------------------------------
(* Token market state: CompanyToken *)

\* the candle period, 86400 seconds, is one tick of the clock
CandlePeriod == 1
\* price_history and candlestick_data keep their last 100 entries
HistoryCap == 2

Max(a, b) == IF a >= b THEN a ELSE b
Min(a, b) == IF a <= b THEN a ELSE b

\* s[-n:]
LastN(s, n) == IF Len(s) > n THEN SubSeq(s, Len(s) - n + 1, Len(s)) ELSE s

\* symbol.upper()
Upper(symbol) ==
    CASE symbol = "tka" -> "TKA" [] symbol = "tkb" -> "TKB" [] OTHER -> symbol

\* one candle of _generate_historical_data, i days before t, from a
\* generator that moves nothing: open = high = low = close, no volume
SeedCandle(i, price, t) ==
    [timestamp |-> t - i * CandlePeriod, open |-> price, high |-> price,
     low |-> price, close |-> price, volume |-> 0]

\* the emission_baseline a company is registered with, in tonnes
Baseline == 1000

\* CompanyToken.__init__ for a new token, created at time t; the generator
\* of _generate_historical_data moves neither the price nor the emission
CompanyToken(symbol, initial_supply, price, t) ==
    [symbol |-> Upper(symbol), company_name |-> "Company",
     total_supply |-> initial_supply,
     circulating_supply |-> 0, price |-> price,
     emission_baseline |-> Baseline, current_emissions |-> Baseline,
     price_history |->
         [j \in 1..SeedCandles |->
             <<t - (SeedCandles - j + 1) * CandlePeriod, price>>],
     emission_history |->
         [j \in 1..SeedCandles |->
             <<t - (SeedCandles - j + 1) * CandlePeriod, Baseline>>],
     candlestick_data |->
         [j \in 1..SeedCandles |-> SeedCandle(SeedCandles - j + 1, price, t)],
     volume_24h |-> 0, trades |-> <<>>,
     is_verified |-> FALSE, created_at |-> t, owner_address |-> "None"]

\* CompanyToken.__init__ with saved_data: _load_from_saved, from a file
\* that has no 'price_history', no 'emission_history', no
\* 'candlestick_data' and no 'created_at'
SavedToken(symbol, total_supply, price) ==
    [symbol |-> symbol, company_name |-> "Company",
     total_supply |-> total_supply,
     circulating_supply |-> 0, price |-> price,
     emission_baseline |-> Baseline, current_emissions |-> Baseline,
     price_history |-> <<>>, emission_history |-> <<>>,
     candlestick_data |-> <<>>,
     volume_24h |-> 0, trades |-> <<>>,
     is_verified |-> FALSE, created_at |-> 0, owner_address |-> "None"]

\* the three assignments to last_candle in update_price
MergeCandle(last_candle, new_price) ==
    [last_candle EXCEPT !.high = Max(@, new_price),
                        !.low = Min(@, new_price),
                        !.close = new_price]

\* an update_price that opens a candle on every call
update_price_always_new(token, new_price, force, t) ==
    LET n == Len(token.candlestick_data)
        last_candle == token.candlestick_data[n]
    IN  [token EXCEPT
           !.price = new_price,
           !.price_history = LastN(Append(@, <<t, new_price>>), HistoryCap),
           !.candlestick_data =
               IF n = 0 THEN @
               ELSE LastN(Append(@, [timestamp |-> t,
                                     open |-> last_candle.close,
                                     high |-> new_price, low |-> new_price,
                                     close |-> new_price, volume |-> 0]),
                          HistoryCap)]

\* CompanyToken.update_price
update_price(token, new_price, force, t) ==
    LET n == Len(token.candlestick_data)
        last_candle == token.candlestick_data[n]
    IN  IF ~force /\ n > 0 /\ t - last_candle.timestamp < CandlePeriod
        THEN [token EXCEPT !.candlestick_data[n] = MergeCandle(@, new_price),
                           !.price = new_price]
        ELSE
        LET t1 == [token EXCEPT
                     !.price = new_price,
                     !.price_history =
                         LastN(Append(@, <<t, new_price>>), HistoryCap)]
        IN  IF n = 0 THEN t1
            ELSE IF t - last_candle.timestamp >= CandlePeriod
            THEN [t1 EXCEPT !.candlestick_data =
                     LastN(Append(@, [timestamp |-> t,
                                      open |-> last_candle.close,
                                      high |-> new_price, low |-> new_price,
                                      close |-> new_price, volume |-> 0]),
                           HistoryCap)]
            ELSE [t1 EXCEPT !.candlestick_data[n] = MergeCandle(@, new_price)]

\* an update_emissions that keeps the first 100 entries
update_emissions_keeping_oldest(token, new_emissions, t) ==
    [token EXCEPT
       !.current_emissions = new_emissions,
       !.emission_history =
           IF Len(@) >= HistoryCap THEN @ ELSE Append(@, <<t, new_emissions>>)]

\* an update_emissions that takes the reading as the new baseline too
update_emissions_rebasing(token, new_emissions, t) ==
    [token EXCEPT
       !.current_emissions = new_emissions,
       !.emission_baseline = new_emissions,
       !.emission_history = LastN(Append(@, <<t, new_emissions>>), HistoryCap)]

\* CompanyToken.update_emissions
update_emissions(token, new_emissions, t) ==
    [token EXCEPT
       !.current_emissions = new_emissions,
       !.emission_history = LastN(Append(@, <<t, new_emissions>>), HistoryCap)]

\* an add_trade that lets the trade pull the price and the active candle
add_trade_repricing(token, amount, price, trade_type, t) ==
    LET t1 == [token EXCEPT
                 !.trades = Append(@, [timestamp |-> t, amount |-> amount,
                                      price |-> price, type |-> trade_type]),
                 !.volume_24h = @ + amount * price,
                 !.price = @ + amount]
        n == Len(token.candlestick_data)
    IN  IF n > 0
        THEN [t1 EXCEPT !.candlestick_data[n].volume = @ + amount,
                        !.candlestick_data[n].close = t1.price]
        ELSE t1

\* an add_trade that adds the traded value to the candle, not the amount
add_trade_valuing_candle(token, amount, price, trade_type, t) ==
    LET t1 == [token EXCEPT
                 !.trades = Append(@, [timestamp |-> t, amount |-> amount,
                                      price |-> price, type |-> trade_type]),
                 !.volume_24h = @ + amount * price]
        n == Len(token.candlestick_data)
    IN  IF n > 0
        THEN [t1 EXCEPT !.candlestick_data[n].volume = @ + amount * price]
        ELSE t1

\* CompanyToken.add_trade
add_trade(token, amount, price, trade_type, t) ==
    LET t1 == [token EXCEPT
                 !.trades = Append(@, [timestamp |-> t, amount |-> amount,
                                      price |-> price, type |-> trade_type]),
                 !.volume_24h = @ + amount * price]
        n == Len(token.candlestick_data)
    IN  IF n > 0
        THEN [t1 EXCEPT !.candlestick_data[n].volume = @ + amount]
        ELSE t1

----------------------------------------------------------------------------
(* Price formation: PriceEngine *)

\* Prices are cents, an emission performance is in thousandths (1000 is
\* 1.0), a sentiment is in hundredths (50 is 0.5), an impact is in units of
\* 0.0001 and so a price change is in hundredths of a percent.

\* emission_impact_factor 0.5, market_sentiment_factor 0.3 and
\* volume_factor 0.2 of PriceEngine.__init__, in hundredths
emission_impact_factor == 50
market_sentiment_factor == 30
volume_factor == 20

\* math.log1p, in thousandths, on the volumes the model uses
Log1p(trading_volume) ==
    CASE trading_volume = 0 -> 0
      [] trading_volume = 1 -> 693
      [] trading_volume = 100 -> 4615

\* round(n / d, 2 decimals) of a price n / d in cents: to the nearest cent,
\* a tie to the even cent
RoundCents(n, d) ==
    LET q == n \div d
        r == n % d
    IN  IF 2 * r < d THEN q
        ELSE IF 2 * r > d THEN q + 1
        ELSE IF q % 2 = 0 THEN q ELSE q + 1

\* CompanyToken.get_emission_performance
get_emission_performance(token) ==
    IF token.emission_baseline = 0 THEN 1000
    ELSE (token.current_emissions * 1000) \div token.emission_baseline

\* a calculate_price_update without the floor max(new_price, 0.01)
calculate_price_update_unfloored(token, emission_performance, trading_volume, market_sentiment) ==
    LET emission_impact ==
            IF emission_performance < 1000
            THEN ((1000 - emission_performance) * emission_impact_factor) \div 10
            ELSE 0 - (((emission_performance - 1000) * emission_impact_factor) \div 10)
        sentiment_impact ==
            (market_sentiment - 50) * 2 * market_sentiment_factor
        volume_impact == (Log1p(trading_volume) * volume_factor) \div 1000
        total_impact == emission_impact + sentiment_impact + volume_impact
        price_change_percent == Max(Min(total_impact, 5000), 0 - 5000)
        new_price == token.price * (10000 + price_change_percent)
    IN  RoundCents(new_price, 10000)

\* a calculate_price_update whose penalty branch rewards the emitter
calculate_price_update_rewarding(token, emission_performance, trading_volume, market_sentiment) ==
    LET emission_impact ==
            IF emission_performance < 1000
            THEN ((1000 - emission_performance) * emission_impact_factor) \div 10
            ELSE ((emission_performance - 1000) * emission_impact_factor) \div 10
        sentiment_impact ==
            (market_sentiment - 50) * 2 * market_sentiment_factor
        volume_impact == (Log1p(trading_volume) * volume_factor) \div 1000
        total_impact == emission_impact + sentiment_impact + volume_impact
        price_change_percent == Max(Min(total_impact, 5000), 0 - 5000)
        new_price == token.price * (10000 + price_change_percent)
    IN  RoundCents(Max(new_price, 10000), 10000)

\* PriceEngine.calculate_price_update
calculate_price_update(token, emission_performance, trading_volume, market_sentiment) ==
    LET emission_impact ==
            IF emission_performance < 1000
            THEN ((1000 - emission_performance) * emission_impact_factor) \div 10
            ELSE 0 - (((emission_performance - 1000) * emission_impact_factor) \div 10)
        sentiment_impact ==
            (market_sentiment - 50) * 2 * market_sentiment_factor
        volume_impact == (Log1p(trading_volume) * volume_factor) \div 1000
        total_impact == emission_impact + sentiment_impact + volume_impact
        price_change_percent == Max(Min(total_impact, 5000), 0 - 5000)
        new_price == token.price * (10000 + price_change_percent)
    IN  RoundCents(Max(new_price, 10000), 10000)

----------------------------------------------------------------------------
(* Token storage and the emission feed: TokenStorage, IoTSimulator, main *)

\* the timestamp 0 of a store that was never written: more than a period
\* before the first value of the clock
UnixEpoch == 0 - CandlePeriod

\* what _load returns when there is no file
NoFile == [tokens |-> EmptyDict, last_update |-> UnixEpoch]

\* set_update_interval(24): the feed updates a symbol once a candle period
update_interval == CandlePeriod

\* d.get(k, default)
Get(d, k, default) == IF k \in DOMAIN d THEN d[k] ELSE default

\* the loop of save over a history: the items of two elements, as lists
Pairs(history) ==
    LET kept == SelectSeq(history, LAMBDA item : Len(item) = 2)
    IN  [i \in 1..Len(kept) |-> <<kept[i][1], kept[i][2]>>]

\* the dictionary save writes for one token: the trade log is not in it
TokenData(token) ==
    [company_name |-> token.company_name,
     symbol |-> token.symbol,
     total_supply |-> token.total_supply,
     circulating_supply |-> token.circulating_supply,
     emission_baseline |-> token.emission_baseline,
     current_emissions |-> token.current_emissions,
     price |-> token.price,
     price_history |-> Pairs(token.price_history),
     emission_history |-> Pairs(token.emission_history),
     candlestick_data |-> token.candlestick_data,
     volume_24h |-> token.volume_24h,
     is_verified |-> token.is_verified,
     created_at |-> token.created_at,
     owner_address |-> token.owner_address]

\* TokenStorage.save(tokens) at time t: what the file holds afterwards
save(tokens, t) ==
    [tokens |-> [s \in DOMAIN tokens |-> TokenData(tokens[s])],
     last_update |-> t]

\* a _load_from_saved that restarts the circulating supply
_load_from_saved_uncirculated(data, t) ==
    [symbol |-> data.symbol,
     company_name |-> data.company_name,
     total_supply |-> data.total_supply,
     circulating_supply |-> 0,
     emission_baseline |-> data.emission_baseline,
     current_emissions |->
         Get(data, "current_emissions", data.emission_baseline),
     price |-> Get(data, "price", SeedPrice),
     price_history |-> Get(data, "price_history", <<>>),
     emission_history |-> Get(data, "emission_history", <<>>),
     candlestick_data |-> Get(data, "candlestick_data", <<>>),
     volume_24h |-> Get(data, "volume_24h", 0),
     trades |-> <<>>,
     is_verified |-> Get(data, "is_verified", FALSE),
     created_at |-> Get(data, "created_at", t),
     owner_address |-> Get(data, "owner_address", "None")]

\* CompanyToken._load_from_saved, at time t
_load_from_saved(data, t) ==
    [symbol |-> data.symbol,
     company_name |-> data.company_name,
     total_supply |-> data.total_supply,
     circulating_supply |-> Get(data, "circulating_supply", 0),
     emission_baseline |-> data.emission_baseline,
     current_emissions |->
         Get(data, "current_emissions", data.emission_baseline),
     price |-> Get(data, "price", SeedPrice),
     price_history |-> Get(data, "price_history", <<>>),
     emission_history |-> Get(data, "emission_history", <<>>),
     candlestick_data |-> Get(data, "candlestick_data", <<>>),
     volume_24h |-> Get(data, "volume_24h", 0),
     trades |-> <<>>,
     is_verified |-> Get(data, "is_verified", FALSE),
     created_at |-> Get(data, "created_at", t),
     owner_address |-> Get(data, "owner_address", "None")]

\* a get_last_update_time that knows of no earlier update
get_last_update_time_unset(data) == UnixEpoch

\* TokenStorage.get_last_update_time, on the data read at start
get_last_update_time(data) == Get(data, "last_update", UnixEpoch)

\* registered_tokens of the module the feed thread imports by name, "from
\* main import registered_tokens": the program runs main.py as __main__, so
\* the import makes a second module object whose dictionary stays as
\* main.py:17 initialises it
ImportedRegistry == EmptyDict

\* the address setup_demo_data mints to
OwnerAddress(symbol) == "WALLET_" \o symbol

\* the token setup_demo_data registers under symbol at time t: the saved
\* one if the store read at start has it, else a new one, verified and with
\* 30% of its supply minted to its owner
DemoToken(symbol, data, t) ==
    IF symbol \in DOMAIN data.tokens
    THEN _load_from_saved(data.tokens[symbol], t)
    ELSE [CompanyToken(symbol, 1000000, SeedPrice, t) EXCEPT
             !.is_verified = TRUE,
             !.owner_address = OwnerAddress(symbol),
             !.circulating_supply = (@ + (3 * 1000000) \div 10)]

\* the MINT transaction of a new demo token
DemoMint(symbol, id, t) ==
    Stamp([type |-> "MINT", from_address |-> "MINT",
           to_address |-> OwnerAddress(symbol),
           amount |-> (3 * 1000000) \div 10,
           token_symbol |-> symbol], id, t)

\* demo_companies of setup_demo_data, in their order
DemoCompanies == << "TKA" >>

\* the MINT transactions setup_demo_data queues: one for each company the
\* store read at start does not have
DemoQueue(data, id, t) ==
    LET fresh == SelectSeq(DemoCompanies,
                           LAMBDA symbol : symbol \notin DOMAIN data.tokens)
    IN  [i \in 1..Len(fresh) |-> DemoMint(fresh[i], id + i - 1, t)]

\* the feed is not started and nothing was ever stored
Offline ==
    /\ running = FALSE
    /\ last_update_time = EmptyDict
    /\ storage_file = NoFile
    /\ storage_data = NoFile
    /\ performed = [s \in Tokens |-> UnixEpoch]
    /\ devices = EmptyDict

\* the request threads of the web server, one request each
Threads == {1, 2}

\* a thread that serves no request: its position, the request it serves
\* and the locals of the calls it is in
IdleThread ==
    [pc |-> "idle", job |-> "none", username |-> "none",
     token_symbol |-> "none", amount |-> 0, fee |-> 0, total_cost |-> 0,
     transaction |-> EmptyDict, block |-> GenesisBlock(0), shares |-> FALSE,
     result |-> "None"]

\* no request is being served
NoRequests ==
    /\ threads = [t \in Threads |-> IdleThread]
    /\ aliased = {}

----------------------------------------------------------------------------
(* Wallets: Wallet and WalletManager *)

\* self.transaction_fee = 0.01, as a percentage
FeePercent == 1

\* str(uuid.uuid4()): one address per wallet
WalletAddress(username) ==
    CASE username = "alice" -> "w-alice" [] OTHER -> "w-carol"

\* Wallet.__init__
Wallet(username, initial_balance, t) ==
    [address |-> WalletAddress(username), username |-> username,
     usd_balance |-> initial_balance, token_balances |-> EmptyDict,
     transaction_history |-> <<>>, created_at |-> t]

\* Wallet.get_balance(token_symbol)
wallet_get_balance(w, token_symbol) ==
    IF token_symbol \in DOMAIN w.token_balances
    THEN w.token_balances[token_symbol] ELSE 0

\* Wallet.add_usd
add_usd(w, amount, t) ==
    [w EXCEPT !.usd_balance = @ + amount,
              !.transaction_history =
                  Append(@, [timestamp |-> t, type |-> "DEPOSIT",
                             amount |-> amount, currency |-> "USD"])]

\* Wallet.deduct_usd
deduct_usd(w, amount) ==
    IF w.usd_balance < amount THEN w
    ELSE [w EXCEPT !.usd_balance = @ - amount]

\* an add_tokens that stores the amount instead of adding it
add_tokens_overwriting(w, token_symbol, amount) ==
    [w EXCEPT !.token_balances = Put(@, token_symbol, amount)]

\* Wallet.add_tokens
add_tokens(w, token_symbol, amount) ==
    LET have == IF token_symbol \in DOMAIN w.token_balances
                THEN w.token_balances[token_symbol] ELSE 0
    IN  [w EXCEPT !.token_balances = Put(@, token_symbol, have + amount)]

\* Wallet.deduct_tokens
deduct_tokens(w, token_symbol, amount) ==
    IF token_symbol \notin DOMAIN w.token_balances THEN w
    ELSE IF w.token_balances[token_symbol] < amount THEN w
    ELSE [w EXCEPT !.token_balances =
                       Put(@, token_symbol, @[token_symbol] - amount)]

\* Wallet.record_trade
record_trade(w, trade_type, token_symbol, amount, price, fee, t) ==
    [w EXCEPT !.transaction_history =
        Append(@, [timestamp |-> t, type |-> trade_type,
                   token_symbol |-> token_symbol, amount |-> amount,
                   price |-> price, total |-> amount * price, fee |-> fee])]

\* the dict buy_tokens and sell_tokens hand to create_transaction
TradeTransaction(trade_type, w, amount, token_symbol, price, fee) ==
    [type |-> trade_type, from_address |-> w.address, to_address |-> w.address,
     amount |-> amount, token_symbol |-> token_symbol, price |-> price,
     fee |-> fee]

\* blockchain.create_transaction as the last call of a trade: the dict is
\* queued, or ValueError leaves the trade with nothing returned
SubmitTrade(transaction) ==
    LET tx1 == Stamp(transaction, nextId, now)
    IN  IF ~_validate_transaction(tx1, balances)
        THEN /\ ret' = "ValueError"
             /\ UNCHANGED <<pending_transactions, nextId, feedVars, raceVars>>
        ELSE /\ nextId <= MaxTx
             /\ pending_transactions' = Append(pending_transactions, tx1)
             /\ nextId' = nextId + 1
             /\ ret' = "success"

\* a create_wallet that opens a new wallet on every call
create_wallet_replacing(username, initial_balance) ==
    /\ wallets' = Put(wallets, username, Wallet(username, initial_balance, now))
    /\ ret' = wallets'[username].address
    /\ UNCHANGED <<chain, pending_transactions, difficulty, balances,
                   registered_tokens, now, nextId, feedVars, raceVars>>

\* WalletManager.create_wallet; it returns the wallet, here its address
create_wallet(username, initial_balance) ==
    /\ wallets' = IF username \in DOMAIN wallets THEN wallets
                  ELSE Put(wallets, username, Wallet(username, initial_balance, now))
    /\ ret' = wallets'[username].address
    /\ UNCHANGED <<chain, pending_transactions, difficulty, balances,
                   registered_tokens, now, nextId, feedVars, raceVars>>

\* the "Execute trade" lines of buy_tokens
ExecuteBuy(wallet, token, token_symbol, amount, fee, t) ==
    record_trade(add_tokens(deduct_usd(wallet, amount * token.price + fee),
                            token_symbol, amount),
                 "BUY", token_symbol, amount, token.price, fee, t)

\* a sale that pays the proceeds without taking the fee out
ExecuteSell_gross(wallet, token, token_symbol, amount, fee, t) ==
    record_trade(add_usd(deduct_tokens(wallet, token_symbol, amount),
                         amount * token.price, t),
                 "SELL", token_symbol, amount, token.price, fee, t)

\* the "Execute trade" lines of sell_tokens
ExecuteSell(wallet, token, token_symbol, amount, fee, t) ==
    record_trade(add_usd(deduct_tokens(wallet, token_symbol, amount),
                         amount * token.price - fee, t),
                 "SELL", token_symbol, amount, token.price, fee, t)

\* a buy_tokens that writes a refused purchase into the wallet's history
buy_tokens_logging_refusals(username, token_symbol, amount) ==
    IF username \notin DOMAIN wallets
    THEN /\ ret' = "Wallet not found"
         /\ UNCHANGED <<chain, pending_transactions, difficulty, balances,
                        registered_tokens, wallets, now, nextId, feedVars, raceVars>>
    ELSE IF token_symbol \notin DOMAIN registered_tokens
    THEN /\ ret' = "Token not found"
         /\ UNCHANGED <<chain, pending_transactions, difficulty, balances,
                        registered_tokens, wallets, now, nextId, feedVars, raceVars>>
    ELSE
    LET wallet == wallets[username]
        token == registered_tokens[token_symbol]
        cost == amount * token.price
        fee == (cost * FeePercent) \div 100
        total_cost == cost + fee
    IN  IF wallet.usd_balance < total_cost
        THEN /\ ret' = "Insufficient funds"
             /\ wallets' = [wallets EXCEPT ![username] =
                    record_trade(wallet, "BUY", token_symbol, 0, token.price,
                                 0, now)]
             /\ UNCHANGED <<chain, pending_transactions, difficulty, balances,
                            registered_tokens, now, nextId, feedVars, raceVars>>
        ELSE
            /\ Len(token.trades) < MaxTrades
            /\ wallets' = [wallets EXCEPT ![username] =
                               ExecuteBuy(wallet, token, token_symbol, amount,
                                          fee, now)]
            /\ registered_tokens' =
                   [registered_tokens EXCEPT ![token_symbol] =
                       add_trade(token, amount, token.price, "BUY", now)]
            /\ SubmitTrade(TradeTransaction("BUY", wallet, amount,
                                            token_symbol, token.price, fee))
            /\ UNCHANGED <<chain, difficulty, balances, now, feedVars, raceVars>>

\* WalletManager.buy_tokens
buy_tokens(username, token_symbol, amount) ==
    IF username \notin DOMAIN wallets
    THEN /\ ret' = "Wallet not found"
         /\ UNCHANGED <<chain, pending_transactions, difficulty, balances,
                        registered_tokens, wallets, now, nextId, feedVars, raceVars>>
    ELSE IF token_symbol \notin DOMAIN registered_tokens
    THEN /\ ret' = "Token not found"
         /\ UNCHANGED <<chain, pending_transactions, difficulty, balances,
                        registered_tokens, wallets, now, nextId, feedVars, raceVars>>
    ELSE
    LET wallet == wallets[username]
        token == registered_tokens[token_symbol]
        cost == amount * token.price
        fee == (cost * FeePercent) \div 100
        total_cost == cost + fee
    IN  IF wallet.usd_balance < total_cost
        THEN /\ ret' = "Insufficient funds"
             /\ UNCHANGED <<chain, pending_transactions, difficulty, balances,
                            registered_tokens, wallets, now, nextId, feedVars, raceVars>>
        ELSE
            /\ Len(token.trades) < MaxTrades
            /\ wallets' = [wallets EXCEPT ![username] =
                               ExecuteBuy(wallet, token, token_symbol, amount,
                                          fee, now)]
            /\ registered_tokens' =
                   [registered_tokens EXCEPT ![token_symbol] =
                       add_trade(token, amount, token.price, "BUY", now)]
            /\ SubmitTrade(TradeTransaction("BUY", wallet, amount,
                                            token_symbol, token.price, fee))
            /\ UNCHANGED <<chain, difficulty, balances, now, feedVars, raceVars>>

\* WalletManager.sell_tokens
sell_tokens(username, token_symbol, amount) ==
    IF username \notin DOMAIN wallets
    THEN /\ ret' = "Wallet not found"
         /\ UNCHANGED <<chain, pending_transactions, difficulty, balances,
                        registered_tokens, wallets, now, nextId, feedVars, raceVars>>
    ELSE IF token_symbol \notin DOMAIN registered_tokens
    THEN /\ ret' = "Token not found"
         /\ UNCHANGED <<chain, pending_transactions, difficulty, balances,
                        registered_tokens, wallets, now, nextId, feedVars, raceVars>>
    ELSE
    LET wallet == wallets[username]
        token == registered_tokens[token_symbol]
    IN  IF wallet_get_balance(wallet, token_symbol) < amount
        THEN /\ ret' = "Insufficient tokens"
             /\ UNCHANGED <<chain, pending_transactions, difficulty, balances,
                            registered_tokens, wallets, now, nextId, feedVars, raceVars>>
        ELSE
        LET proceeds == amount * token.price
            fee == (proceeds * FeePercent) \div 100
            net_proceeds == proceeds - fee
        IN  /\ Len(token.trades) < MaxTrades
            /\ wallets' = [wallets EXCEPT ![username] =
                               ExecuteSell(wallet, token, token_symbol, amount,
                                           fee, now)]
            /\ registered_tokens' =
                   [registered_tokens EXCEPT ![token_symbol] =
                       add_trade(token, amount, token.price, "SELL", now)]
            /\ SubmitTrade(TradeTransaction("SELL", wallet, amount,
                                            token_symbol, token.price, fee))
            /\ UNCHANGED <<chain, difficulty, balances, now, feedVars, raceVars>>

\* the mine a trade route runs once create_transaction has queued the
\* trade: the whole queue goes into one block
SealQueue(queue) ==
    LET block == ProofOfWork(
                     Block(Len(chain), queue, now, get_latest_block(chain).hash),
                     difficulty)
    IN  /\ chain' = Append(chain, block)
        /\ balances' = ProcessTransactions(balances, queue, 1)
        /\ pending_transactions' = <<>>

\* a route that queues the trade and answers without mining
SubmitAndMine_unmined(transaction) ==
    LET tx1 == Stamp(transaction, nextId, now)
    IN  IF ~_validate_transaction(tx1, balances)
        THEN /\ ret' = "error"
             /\ UNCHANGED <<chain, pending_transactions, balances, nextId, feedVars, raceVars>>
        ELSE /\ nextId <= MaxTx
             /\ nextId' = nextId + 1
             /\ pending_transactions' = Append(pending_transactions, tx1)
             /\ ret' = "success"
             /\ UNCHANGED <<chain, balances, feedVars, raceVars>>

\* create_transaction then mine_pending_transactions('SYSTEM'), as the
\* routes run them; the ValueError of create_transaction is answered 400
SubmitAndMine(transaction) ==
    LET tx1 == Stamp(transaction, nextId, now)
    IN  IF ~_validate_transaction(tx1, balances)
        THEN /\ ret' = "error"
             /\ UNCHANGED <<chain, pending_transactions, balances, nextId, feedVars, raceVars>>
        ELSE /\ nextId <= MaxTx
             /\ nextId' = nextId + 1
             /\ SealQueue(Append(pending_transactions, tx1))
             /\ ret' = "success"

\* the checks of buy_tokens that return a failure result
BuyFails(username, token_symbol, amount) ==
    \/ username \notin DOMAIN wallets
    \/ token_symbol \notin DOMAIN registered_tokens
    \/ LET cost == amount * registered_tokens[token_symbol].price
       IN  wallets[username].usd_balance < cost + (cost * FeePercent) \div 100

\* the checks of sell_tokens that return a failure result
SellFails(username, token_symbol, amount) ==
    \/ username \notin DOMAIN wallets
    \/ token_symbol \notin DOMAIN registered_tokens
    \/ wallet_get_balance(wallets[username], token_symbol) < amount

\* POST /api/buy for a logged-in user
api_buy(username, token_symbol, amount) ==
    IF BuyFails(username, token_symbol, amount)
    THEN buy_tokens(username, token_symbol, amount)
    ELSE
    LET wallet == wallets[username]
        token == registered_tokens[token_symbol]
        fee == (amount * token.price * FeePercent) \div 100
    IN  /\ Len(token.trades) < MaxTrades
        /\ wallets' = [wallets EXCEPT ![username] =
                           ExecuteBuy(wallet, token, token_symbol, amount,
                                      fee, now)]
        /\ registered_tokens' =
               [registered_tokens EXCEPT ![token_symbol] =
                   add_trade(token, amount, token.price, "BUY", now)]
        /\ SubmitAndMine(TradeTransaction("BUY", wallet, amount, token_symbol,
                                          token.price, fee))
        /\ UNCHANGED <<difficulty, now, feedVars, raceVars>>

\* POST /api/sell for a logged-in user
api_sell(username, token_symbol, amount) ==
    IF SellFails(username, token_symbol, amount)
    THEN sell_tokens(username, token_symbol, amount)
    ELSE
    LET wallet == wallets[username]
        token == registered_tokens[token_symbol]
        fee == (amount * token.price * FeePercent) \div 100
    IN  /\ Len(token.trades) < MaxTrades
        /\ wallets' = [wallets EXCEPT ![username] =
                           ExecuteSell(wallet, token, token_symbol, amount,
                                       fee, now)]
        /\ registered_tokens' =
               [registered_tokens EXCEPT ![token_symbol] =
                   add_trade(token, amount, token.price, "SELL", now)]
        /\ SubmitAndMine(TradeTransaction("SELL", wallet, amount, token_symbol,
                                          token.price, fee))
        /\ UNCHANGED <<difficulty, now, feedVars, raceVars>>

\* a mint that does not look at the supply
mint_unchecked(token_symbol, amount, to_address) ==
    LET token == registered_tokens[token_symbol]
        tx1 == Stamp([type |-> "MINT", from_address |-> "MINT",
                      to_address |-> to_address, amount |-> amount,
                      token_symbol |-> token.symbol], nextId, now)
    IN  /\ nextId <= MaxTx
        /\ pending_transactions' = Append(pending_transactions, tx1)
        /\ nextId' = nextId + 1
        /\ registered_tokens' =
               [registered_tokens EXCEPT
                   ![token_symbol].circulating_supply = @ + amount]
        /\ ret' = "True"
        /\ UNCHANGED <<chain, difficulty, balances, wallets, now, feedVars, raceVars>>

\* CompanyToken.mint, on the token registered under token_symbol
mint(token_symbol, amount, to_address) ==
    LET token == registered_tokens[token_symbol]
        tx1 == Stamp([type |-> "MINT", from_address |-> "MINT",
                      to_address |-> to_address, amount |-> amount,
                      token_symbol |-> token.symbol], nextId, now)
    IN  IF token.circulating_supply + amount > token.total_supply
           \/ ~_validate_transaction(tx1, balances)
        THEN /\ ret' = "ValueError"
             /\ UNCHANGED <<chain, pending_transactions, difficulty, balances,
                            registered_tokens, wallets, now, nextId, feedVars, raceVars>>
        ELSE /\ nextId <= MaxTx
             /\ pending_transactions' = Append(pending_transactions, tx1)
             /\ nextId' = nextId + 1
             /\ registered_tokens' =
                    [registered_tokens EXCEPT
                        ![token_symbol].circulating_supply = @ + amount]
             /\ ret' = "True"
             /\ UNCHANGED <<chain, difficulty, balances, wallets, now, feedVars, raceVars>>

\* a register_token that rebinds a symbol already registered
register_token_overwriting(token) ==
    /\ registered_tokens' = Put(registered_tokens, token.symbol, token)
    /\ ret' = IF token.symbol \in DOMAIN registered_tokens
              THEN "ValueError" ELSE "True"
    /\ UNCHANGED <<chain, pending_transactions, difficulty, balances,
                   wallets, now, nextId, feedVars, raceVars>>

\* CarbonCoinBlockchain.register_token
register_token(token) ==
    IF token.symbol \in DOMAIN registered_tokens
    THEN /\ ret' = "ValueError"
         /\ UNCHANGED <<chain, pending_transactions, difficulty, balances,
                        registered_tokens, wallets, now, nextId, feedVars, raceVars>>
    ELSE /\ registered_tokens' = Put(registered_tokens, token.symbol, token)
         /\ ret' = "True"
         /\ UNCHANGED <<chain, pending_transactions, difficulty, balances,
                        wallets, now, nextId, feedVars, raceVars>>

\* DELETE /api/admin/delete_token/<symbol>: the route calls
\* blockchain.delete_token, an attribute CarbonCoinBlockchain does not have;
\* the AttributeError is answered 400 by the route's except clause
admin_delete_token(symbol, role) ==
    /\ ret' = IF role # "admin" THEN "Unauthorized" ELSE "error"
    /\ UNCHANGED <<chain, pending_transactions, difficulty, balances,
                   registered_tokens, wallets, now, nextId, feedVars, raceVars>>

\* time() moves on between calls
Tick ==
    /\ now < MaxTime
    /\ now' = now + 1
    /\ UNCHANGED <<chain, pending_transactions, difficulty, balances,
                   registered_tokens, wallets, nextId, ret, feedVars, raceVars>>

Submit == \E transaction \in TxInputs : create_transaction(transaction)

Mine == \E miner_address \in {"SYSTEM"} : mine_pending_transactions(miner_address)

\* CarbonCoinBlockchain.__init__
Init ==
    /\ now = 0
    /\ chain = << GenesisBlock(0) >>
    /\ pending_transactions = <<>>
    /\ difficulty \in Difficulties
    /\ balances = EmptyDict
    /\ registered_tokens = EmptyDict
    /\ wallets = EmptyDict
    /\ nextId = 1
    /\ ret = "None"
    /\ Offline
    /\ NoRequests

Next == Submit \/ Mine \/ Tick

Spec == Init /\ [][Next]_vars

\* the trading platform once its tokens are registered (main.py): users
\* open wallets and trade, the chain is mined by whoever calls mine
TradeInit ==
    /\ now = 0
    /\ chain = << GenesisBlock(0) >>
    /\ pending_transactions = <<>>
    /\ difficulty \in Difficulties
    /\ balances = EmptyDict
    /\ registered_tokens =
           [s \in Tokens |-> CompanyToken(s, 1000000, SeedPrice, 0)]
    /\ wallets = EmptyDict
    /\ nextId = 1
    /\ ret = "None"
    /\ Offline
    /\ NoRequests

CreateWallet ==
    \E u \in TradeUsers \ {"carol"}, b \in InitialBalances : create_wallet(u, b)

Buy == \E r \in TradeRequests : buy_tokens(r[1], r[2], r[3])

Sell == \E r \in TradeRequests : sell_tokens(r[1], r[2], r[3])

TradeNext == CreateWallet \/ Buy \/ Sell \/ Mine \/ Tick

TradeSpec == TradeInit /\ [][TradeNext]_vars

\* the trade routes, for a logged-in user
ApiBuy == \E r \in TradeRequests : api_buy(r[1], r[2], r[3])

ApiSell == \E r \in TradeRequests : api_sell(r[1], r[2], r[3])


\* the administration of tokens: tokens are created and registered, minted
\* to their owner, and asked to be deleted
RegisterToken ==
    \E symbol \in NewSymbols, supply \in Supplies :
        register_token(CompanyToken(symbol, supply, SeedPrice, now))

MintTokens ==
    \E s \in DOMAIN registered_tokens, a \in Amounts : mint(s, a, "alice")

DeleteToken ==
    \E s \in TradeSymbols, role \in Roles : admin_delete_token(s, role)

\* the web application: users open wallets and trade through the routes,
\* each successful trade mined before the route answers; tokens are minted
\* to their owners on the side
RouteNext == CreateWallet \/ ApiBuy \/ ApiSell \/ MintTokens \/ Tick

RouteSpec == TradeInit /\ [][RouteNext]_vars

AdminNext == RegisterToken \/ MintTokens \/ DeleteToken \/ Mine \/ Tick

AdminSpec == Init /\ [][AdminNext]_vars

\* the supply of a token: tokens are registered with a small supply and
\* minted, users open wallets and buy and sell through the routes, and
\* blocks are mined on the side
SupplyNext ==
    RegisterToken \/ MintTokens \/ CreateWallet \/ ApiBuy \/ ApiSell \/ Mine

SupplySpec == Init /\ [][SupplyNext]_vars

\* the price feed: each token, new or loaded from a file without candles,
\* gets price updates, forced or not, and trades are recorded on it
PriceInit ==
    /\ now = 0
    /\ chain = << GenesisBlock(0) >>
    /\ pending_transactions = <<>>
    /\ difficulty \in Difficulties
    /\ balances = EmptyDict
    /\ registered_tokens \in
           [Tokens -> {CompanyToken(s, 1000000, SeedPrice, 0) : s \in Tokens}
                        \cup {SavedToken(s, 1000000, SeedPrice) : s \in Tokens}]
    /\ \A s \in Tokens : registered_tokens[s].symbol = s
    /\ wallets = EmptyDict
    /\ nextId = 1
    /\ ret = "None"
    /\ Offline
    /\ NoRequests

\* token.update_price(new_price, force) on the token registered under s
UpdateTokenPrice(s, new_price, force) ==
    /\ registered_tokens' =
           [registered_tokens EXCEPT
               ![s] = update_price(@, new_price, force, now)]
    /\ ret' = "None"
    /\ UNCHANGED <<chain, pending_transactions, difficulty, balances,
                   wallets, now, nextId, feedVars, raceVars>>

UpdatePrice ==
    \E s \in Tokens, new_price \in Prices, force \in BOOLEAN :
        UpdateTokenPrice(s, new_price, force)

RecordTrade ==
    \E s \in Tokens :
        /\ Len(registered_tokens[s].trades) < MaxTrades
        /\ registered_tokens' =
               [registered_tokens EXCEPT ![s] =
                   add_trade(@, 1, @.price, "BUY", now)]
        /\ ret' = "None"
        /\ UNCHANGED <<chain, pending_transactions, difficulty, balances,
                       wallets, now, nextId, feedVars, raceVars>>

PriceNext == UpdatePrice \/ RecordTrade \/ Tick

PriceSpec == PriceInit /\ [][PriceNext]_vars

\* the series of a token the bootstrap created: emission updates, price
\* updates and trade records, in any order
SeriesInit ==
    /\ now = 0
    /\ chain = << GenesisBlock(0) >>
    /\ pending_transactions = <<>>
    /\ difficulty \in Difficulties
    /\ balances = EmptyDict
    /\ registered_tokens =
           [s \in Tokens |-> CompanyToken(s, 1000000, SeedPrice, 0)]
    /\ wallets = EmptyDict
    /\ nextId = 1
    /\ ret = "None"
    /\ Offline
    /\ NoRequests

\* token.update_emissions(new_emissions) on the token registered under s
UpdateTokenEmissions(s, new_emissions) ==
    /\ registered_tokens' =
           [registered_tokens EXCEPT
               ![s] = update_emissions(@, new_emissions, now)]
    /\ ret' = "None"
    /\ UNCHANGED <<chain, pending_transactions, difficulty, balances,
                   wallets, now, nextId, feedVars, raceVars>>

UpdateEmissions ==
    \E s \in Tokens, new_emissions \in Emissions :
        UpdateTokenEmissions(s, new_emissions)

\* the emission feed moves the price up or leaves it, forced or not
SeriesPrice ==
    \E s \in Tokens, force \in BOOLEAN :
        UpdateTokenPrice(s, SeedPrice + 1000, force)

SeriesNext == UpdateEmissions \/ SeriesPrice \/ RecordTrade \/ Tick

SeriesSpec == SeriesInit /\ [][SeriesNext]_vars

\* the trade log of a token, new or loaded from a file without candles:
\* trades of any amount and kind are recorded at any price while the feed
\* moves the price
RecordTokenTrade(s, amount, price, trade_type) ==
    /\ Len(registered_tokens[s].trades) < MaxTrades
    /\ registered_tokens' =
           [registered_tokens EXCEPT ![s] =
               add_trade(@, amount, price, trade_type, now)]
    /\ ret' = "None"
    /\ UNCHANGED <<chain, pending_transactions, difficulty, balances,
                   wallets, now, nextId, feedVars, raceVars>>

TradeRecord ==
    \E s \in Tokens, amount \in Amounts, price \in Prices,
       trade_type \in {"BUY", "SELL"} :
        RecordTokenTrade(s, amount, price, trade_type)

TradeLogNext == TradeRecord \/ SeriesPrice \/ Tick

TradeLogSpec == PriceInit /\ [][TradeLogNext]_vars

\* the price engine, applied to a token at any price: one repricing a
\* period, as the emission feed does it, with any performance, volume and
\* sentiment
EngineInit ==
    /\ now = 0
    /\ chain = << GenesisBlock(0) >>
    /\ pending_transactions = <<>>
    /\ difficulty \in Difficulties
    /\ balances = EmptyDict
    /\ \E price \in EnginePrices :
           registered_tokens =
               [s \in Tokens |-> CompanyToken(s, 1000000, price, 0)]
    /\ wallets = EmptyDict
    /\ nextId = 1
    /\ ret = "None"
    /\ Offline
    /\ NoRequests

\* new_price = calculate_price_update(token, ...);
\* token.update_price(new_price, force=True), a period after the last one
Reprice(s, emission_performance, trading_volume, market_sentiment) ==
    /\ now < MaxTime
    /\ now' = now + CandlePeriod
    /\ registered_tokens' =
           [registered_tokens EXCEPT ![s] =
               update_price(@, calculate_price_update(@, emission_performance,
                                trading_volume, market_sentiment),
                            TRUE, now')]
    /\ ret' = "None"
    /\ UNCHANGED <<chain, pending_transactions, difficulty, balances,
                   wallets, nextId, feedVars, raceVars>>

PriceUpdate ==
    \E s \in Tokens, emission_performance \in Performances,
       trading_volume \in Volumes, market_sentiment \in Sentiments :
        Reprice(s, emission_performance, trading_volume, market_sentiment)

EngineNext == PriceUpdate

EngineSpec == EngineInit /\ [][EngineNext]_vars

\* the platform process over its restarts: main() builds the chain and the
\* tokens, saved ones from the store, and starts the emission feed; the
\* feed updates each symbol once a period; the process stops with or
\* without its exit handler
FeedInit ==
    /\ now = 0
    /\ chain = << GenesisBlock(0) >>
    /\ pending_transactions = <<>>
    /\ difficulty \in Difficulties
    /\ balances = EmptyDict
    /\ registered_tokens = EmptyDict
    /\ wallets = EmptyDict
    /\ nextId = 1
    /\ ret = "None"
    /\ Offline
    /\ NoRequests

\* main(): TokenStorage(), setup_demo_data (load or create each token,
\* save, mine as 'GENESIS'), start_simulation and the first lines of each
\* device thread
Startup ==
    LET data == storage_file
        queue == DemoQueue(data, nextId, now)
        genesis == GenesisBlock(now)
        tokens == [s \in Tokens |-> DemoToken(s, data, now)]
    IN  /\ ~running
        /\ nextId + Len(queue) - 1 <= MaxTx
        /\ storage_data' = data
        /\ registered_tokens' = tokens
        /\ nextId' = nextId + Len(queue)
        /\ storage_file' = save(tokens, now)
        /\ chain' =
               IF queue = <<>> THEN << genesis >>
               ELSE << genesis,
                       ProofOfWork(Block(1, queue, now, genesis.hash),
                                   difficulty) >>
        /\ balances' = ProcessTransactions(EmptyDict, queue, 1)
        /\ pending_transactions' = <<>>
        /\ wallets' = EmptyDict
        /\ running' = TRUE
        /\ last_update_time' = [s \in Tokens |-> get_last_update_time(data)]
        /\ ret' = "None"
        /\ UNCHANGED <<difficulty, now, performed, devices, raceVars>>

\* one turn of the loop of simulate_device for symbol s that finds the
\* interval elapsed, with the reading new_emissions (within the variance,
\* so validated): emission update, price update, timer, save
DailyUpdate(s, new_emissions) ==
    /\ running
    /\ s \in DOMAIN registered_tokens
    /\ now - last_update_time[s] >= update_interval
    /\ LET t1 == update_emissions(registered_tokens[s], new_emissions, now)
           new_price ==
               calculate_price_update(t1, get_emission_performance(t1), 0, 50)
       IN  registered_tokens' =
               [registered_tokens EXCEPT
                   ![s] = update_price(t1, new_price, TRUE, now)]
    /\ last_update_time' = [last_update_time EXCEPT ![s] = now]
    /\ storage_file' = save(ImportedRegistry, now)
    /\ performed' = [performed EXCEPT ![s] = now]
    /\ ret' = "None"
    /\ UNCHANGED <<chain, pending_transactions, difficulty, balances, wallets,
                   now, nextId, running, storage_data, devices,
                   raceVars>>

FeedUpdate ==
    \E s \in Tokens, new_emissions \in Emissions : DailyUpdate(s, new_emissions)

\* the process ends through save_on_exit (atexit, SIGINT, SIGTERM); what
\* it held in memory is gone
Shutdown ==
    /\ running
    /\ running' = FALSE
    /\ storage_file' =
           IF registered_tokens # EmptyDict
           THEN save(registered_tokens, now) ELSE storage_file
    /\ registered_tokens' = EmptyDict
    /\ last_update_time' = EmptyDict
    /\ storage_data' = NoFile
    /\ ret' = "None"
    /\ UNCHANGED <<chain, pending_transactions, difficulty, balances, wallets,
                   now, nextId, performed, devices, raceVars>>

\* the process is killed: no exit handler runs
Crash ==
    /\ running
    /\ running' = FALSE
    /\ registered_tokens' = EmptyDict
    /\ last_update_time' = EmptyDict
    /\ storage_data' = NoFile
    /\ ret' = "None"
    /\ UNCHANGED <<chain, pending_transactions, difficulty, balances, wallets,
                   now, nextId, storage_file, performed, devices,
                   raceVars>>

FeedNext == Startup \/ FeedUpdate \/ Shutdown \/ Crash \/ Tick

FeedSpec == FeedInit /\ [][FeedNext]_vars

----------------------------------------------------------------------------
(* The device threads of the emission feed: start_simulation starts one
   thread per company, each running simulate_device; stop_simulation and
   force_update_all are called from other threads, and nothing guards
   running or last_update_time.  A device thread moves one statement group
   of simulate_device at a time. *)

\* a device thread that has not yet run a line of simulate_device
NewDevice == [pc |-> "init", emission_value |-> 0, wake |-> 0]

\* the store the process finds at start: none, or the one a run that set
\* up the demo tokens at time 0 left
StoresAtStart ==
    {NoFile, save([s \in Tokens |-> DemoToken(s, NoFile, 0)], 0)}

\* what a step of a device thread leaves alone
DeviceFrame ==
    UNCHANGED <<chain, pending_transactions, difficulty, balances, wallets,
                now, nextId, ret, running, storage_data, raceVars>>

\* lines 21-25: the timer of the symbol starts from the stored last update
SimInit(s) ==
    /\ devices[s].pc = "init"
    /\ last_update_time' =
           IF s \in DOMAIN last_update_time THEN last_update_time
           ELSE Put(last_update_time, s, get_last_update_time(storage_data))
    /\ devices' = [devices EXCEPT ![s].pc = "while"]
    /\ UNCHANGED <<registered_tokens, storage_file, performed>>
    /\ DeviceFrame

\* line 27: while self.running
SimWhile(s) ==
    /\ devices[s].pc = "while"
    /\ devices' = [devices EXCEPT
                      ![s].pc = IF running THEN "elapsed" ELSE "returned"]
    /\ UNCHANGED <<registered_tokens, last_update_time, storage_file,
                   performed>>
    /\ DeviceFrame

\* lines 29-46: the timer is read; without an entry for the symbol the
\* subscript raises KeyError outside the try and the thread ends; before the
\* interval has passed the thread sleeps at most an hour, which is below the
\* resolution of the clock, and continues; else it draws a reading
SimElapsed(s) ==
    /\ devices[s].pc = "elapsed"
    /\ \/ /\ s \notin DOMAIN last_update_time
          /\ devices' = [devices EXCEPT ![s].pc = "KeyError"]
       \/ /\ s \in DOMAIN last_update_time
          /\ now - last_update_time[s] < update_interval
          /\ devices' = [devices EXCEPT ![s].pc = "while"]
       \/ /\ s \in DOMAIN last_update_time
          /\ now - last_update_time[s] >= update_interval
          /\ \E emission_value \in Emissions :
                devices' = [devices EXCEPT
                               ![s].pc = "reading",
                               ![s].emission_value = emission_value]
    /\ UNCHANGED <<registered_tokens, last_update_time, storage_file,
                   performed>>
    /\ DeviceFrame

\* lines 50-58: the reading is validated (it is within the variance) and
\* the token, if registered, gets the emission update
SimEmissions(s) ==
    /\ devices[s].pc = "reading"
    /\ IF s \in DOMAIN registered_tokens
       THEN /\ registered_tokens' =
                  [registered_tokens EXCEPT ![s] =
                      update_emissions(@, devices[s].emission_value, now)]
            /\ performed' = [performed EXCEPT ![s] = now]
            /\ devices' = [devices EXCEPT ![s].pc = "price"]
       ELSE /\ devices' = [devices EXCEPT ![s].pc = "sleep",
                                          ![s].wake = now + update_interval]
            /\ UNCHANGED <<registered_tokens, performed>>
    /\ UNCHANGED <<last_update_time, storage_file>>
    /\ DeviceFrame

\* lines 61-65: the price follows the emission performance, forced
SimPrice(s) ==
    /\ devices[s].pc = "price"
    /\ LET token == registered_tokens[s]
           new_price ==
               calculate_price_update(token, get_emission_performance(token),
                                      0, 50)
       IN  registered_tokens' =
               [registered_tokens EXCEPT
                   ![s] = update_price(token, new_price, TRUE, now)]
    /\ devices' = [devices EXCEPT ![s].pc = "timer"]
    /\ UNCHANGED <<last_update_time, storage_file, performed>>
    /\ DeviceFrame

\* line 68: self.last_update_time[company_symbol] = time()
SimTimer(s) ==
    /\ devices[s].pc = "timer"
    /\ last_update_time' = Put(last_update_time, s, now)
    /\ devices' = [devices EXCEPT ![s].pc = "save"]
    /\ UNCHANGED <<registered_tokens, storage_file, performed>>
    /\ DeviceFrame

\* lines 71-73: from main import registered_tokens; save; then line 90:
\* sleep(self.update_interval) begins
SimSave(s) ==
    /\ devices[s].pc = "save"
    /\ storage_file' = save(ImportedRegistry, now)
    /\ devices' = [devices EXCEPT ![s].pc = "sleep",
                                  ![s].wake = now + update_interval]
    /\ UNCHANGED <<registered_tokens, last_update_time, performed>>
    /\ DeviceFrame

\* line 90: sleep(self.update_interval) returns
SimWake(s) ==
    /\ devices[s].pc = "sleep"
    /\ now >= devices[s].wake
    /\ devices' = [devices EXCEPT ![s].pc = "while"]
    /\ UNCHANGED <<registered_tokens, last_update_time, storage_file,
                   performed>>
    /\ DeviceFrame

\* IoTSimulator.stop_simulation
stop_simulation ==
    /\ running
    /\ running' = FALSE
    /\ UNCHANGED <<chain, pending_transactions, difficulty, balances,
                   registered_tokens, wallets, now, nextId, ret,
                   last_update_time, storage_file, storage_data, performed,
                   devices, raceVars>>

\* IoTSimulator.force_update_all
force_update_all ==
    /\ last_update_time # EmptyDict
    /\ last_update_time' = EmptyDict
    /\ UNCHANGED <<chain, pending_transactions, difficulty, balances,
                   registered_tokens, wallets, now, nextId, ret,
                   running, storage_file, storage_data, performed,
                   devices, raceVars>>

\* main() has set up the demo tokens at time 0, from the store it found,
\* and start_simulation has started the device threads
DeviceInit ==
    \E data \in StoresAtStart :
        LET queue == DemoQueue(data, 1, 0)
            genesis == GenesisBlock(0)
            tokens == [s \in Tokens |-> DemoToken(s, data, 0)]
        IN  /\ now = 0
            /\ difficulty \in Difficulties
            /\ chain =
                   IF queue = <<>> THEN << genesis >>
                   ELSE << genesis,
                           ProofOfWork(Block(1, queue, 0, genesis.hash),
                                       difficulty) >>
            /\ pending_transactions = <<>>
            /\ balances = ProcessTransactions(EmptyDict, queue, 1)
            /\ registered_tokens = tokens
            /\ wallets = EmptyDict
            /\ nextId = 1 + Len(queue)
            /\ ret = "None"
            /\ running = TRUE
            /\ last_update_time = EmptyDict
            /\ storage_file = save(tokens, 0)
            /\ storage_data = data
            /\ performed = [s \in Tokens |-> UnixEpoch]
            /\ devices = [s \in Tokens |-> NewDevice]
            /\ NoRequests

DeviceStep ==
    \E s \in DOMAIN devices :
        \/ SimInit(s) \/ SimWhile(s) \/ SimElapsed(s) \/ SimEmissions(s)
        \/ SimPrice(s) \/ SimTimer(s) \/ SimSave(s) \/ SimWake(s)

DeviceNext == DeviceStep \/ stop_simulation \/ force_update_all \/ Tick

DeviceSpec == DeviceInit /\ [][DeviceNext]_vars

\* the wallet routes: any user asks for a wallet, with any opening
\* balance, as often as they like, and trades from it
OpenWallet ==
    \E u \in TradeUsers, b \in OpeningBalances : create_wallet(u, b)

WalletNext == OpenWallet \/ Buy \/ Sell \/ Mine

WalletSpec == TradeInit /\ [][WalletNext]_vars

\* the whole platform, one call at a time: transactions are submitted,
\* tokens registered and minted, wallets opened, trades made, blocks mined
PlatformSubmit ==
    \E transaction \in TransferInputs \cup MalformedInputs :
        create_transaction(transaction)

PlatformRegister ==
    \E symbol \in Tokens :
        register_token(CompanyToken(symbol, 3, SeedPrice, now))

PlatformMint == \E s \in DOMAIN registered_tokens : mint(s, 1, "alice")

PlatformBuy == \E s \in Tokens : buy_tokens("alice", s, 1)

PlatformSell == \E s \in Tokens : sell_tokens("alice", s, 1)

PlatformNext ==
    PlatformSubmit \/ Mine \/ PlatformRegister \/ PlatformMint
        \/ CreateWallet \/ PlatformBuy \/ PlatformSell

PlatformSpec == Init /\ [][PlatformNext]_vars

----------------------------------------------------------------------------
(* Concurrent requests: the web server runs each request in a thread of its
   own (app.run), and no lock guards the chain, the queue or the wallets.
   A thread moves one statement, or one call that touches no shared list, at
   a time. *)

\* the trades and the transactions concurrent requests ask for
RaceRequests == { <<"alice", s, q>> : s \in Tokens, q \in {1, 2} }
RaceTransactions == MintInputs
\* the balance of the wallet the requests trade from, in cents
RaceBalance == 25000

\* thread t moves to position pc with the locals in changes
Goto(t, next) == threads' = [threads EXCEPT ![t] = next]

\* self.pending_transactions.append(transaction): the list object grows,
\* and with it every block that holds this same object as its transactions
Enqueue(t, next, transaction) ==
    /\ pending_transactions' = Append(pending_transactions, transaction)
    /\ chain' =
           [i \in 1..Len(chain) |->
               IF i \in aliased
               THEN [chain[i] EXCEPT !.transactions = Append(@, transaction)]
               ELSE chain[i]]
    /\ threads' =
           [u \in Threads |->
               IF u = t THEN next
               ELSE IF threads[u].shares
               THEN [threads[u] EXCEPT
                        !.block.transactions = Append(@, transaction)]
               ELSE threads[u]]

\* POST /api/buy reaches wallet_manager.buy_tokens
BuyRequest(t, r) ==
    /\ threads[t].pc = "idle"
    /\ Goto(t, [IdleThread EXCEPT !.pc = "buy_check", !.job = "buy",
                                  !.username = r[1], !.token_symbol = r[2],
                                  !.amount = r[3]])
    /\ UNCHANGED <<chain, pending_transactions, difficulty, balances,
                   registered_tokens, wallets, now, nextId, ret, feedVars,
                   aliased>>

\* a caller reaches blockchain.create_transaction
SubmitRequest(t, transaction) ==
    /\ threads[t].pc = "idle"
    /\ Goto(t, [IdleThread EXCEPT !.pc = "tx_validate", !.job = "submit",
                                  !.transaction = transaction])
    /\ UNCHANGED <<chain, pending_transactions, difficulty, balances,
                   registered_tokens, wallets, now, nextId, ret, feedVars,
                   aliased>>

\* a caller reaches blockchain.mine_pending_transactions
MineRequest(t) ==
    /\ threads[t].pc = "idle"
    /\ Goto(t, [IdleThread EXCEPT !.pc = "mine_start", !.job = "mine"])
    /\ UNCHANGED <<chain, pending_transactions, difficulty, balances,
                   registered_tokens, wallets, now, nextId, ret, feedVars,
                   aliased>>

\* buy_tokens up to its balance check (wallet.py:112-131)
BuyCheck(t) ==
    LET me == threads[t]
    IN  /\ me.pc = "buy_check"
        /\ IF me.username \notin DOMAIN wallets
           THEN Goto(t, [me EXCEPT !.pc = "done", !.result = "Wallet not found"])
           ELSE IF me.token_symbol \notin DOMAIN registered_tokens
           THEN Goto(t, [me EXCEPT !.pc = "done", !.result = "Token not found"])
           ELSE LET cost == me.amount * registered_tokens[me.token_symbol].price
                    fee == (cost * FeePercent) \div 100
                IN  IF wallets[me.username].usd_balance < cost + fee
                    THEN Goto(t, [me EXCEPT !.pc = "done",
                                            !.result = "Insufficient funds"])
                    ELSE Goto(t, [me EXCEPT !.pc = "buy_deduct", !.fee = fee,
                                            !.total_cost = cost + fee])
        /\ UNCHANGED <<chain, pending_transactions, difficulty, balances,
                       registered_tokens, wallets, now, nextId, ret, feedVars,
                       aliased>>

\* wallet.deduct_usd(total_cost); what it returns is dropped (wallet.py:134)
BuyDeduct(t) ==
    LET me == threads[t]
    IN  /\ me.pc = "buy_deduct"
        /\ wallets' = [wallets EXCEPT ![me.username] =
                           deduct_usd(@, me.total_cost)]
        /\ Goto(t, [me EXCEPT !.pc = "buy_credit"])
        /\ UNCHANGED <<chain, pending_transactions, difficulty, balances,
                       registered_tokens, now, nextId, ret, feedVars, aliased>>

\* wallet.add_tokens, wallet.record_trade, token.add_trade
\* (wallet.py:135-139)
BuyCredit(t) ==
    LET me == threads[t]
        token == registered_tokens[me.token_symbol]
    IN  /\ me.pc = "buy_credit"
        /\ Len(token.trades) < MaxTrades
        /\ wallets' = [wallets EXCEPT ![me.username] =
                           record_trade(
                               add_tokens(@, me.token_symbol, me.amount),
                               "BUY", me.token_symbol, me.amount, token.price,
                               me.fee, now)]
        /\ registered_tokens' =
               [registered_tokens EXCEPT ![me.token_symbol] =
                   add_trade(token, me.amount, token.price, "BUY", now)]
        /\ Goto(t, [me EXCEPT !.pc = "buy_submit"])
        /\ UNCHANGED <<chain, pending_transactions, difficulty, balances,
                       now, nextId, ret, feedVars, aliased>>

\* blockchain.create_transaction of the BUY record, and the answer of
\* buy_tokens; the route goes on to mine (wallet.py:142-161,
\* web_app.py:170-171)
BuySubmit(t) ==
    LET me == threads[t]
        tx1 == Stamp(TradeTransaction("BUY", wallets[me.username], me.amount,
                         me.token_symbol,
                         registered_tokens[me.token_symbol].price, me.fee),
                     nextId, now)
    IN  /\ me.pc = "buy_submit"
        /\ IF ~_validate_transaction(tx1, balances)
           THEN /\ Goto(t, [me EXCEPT !.pc = "done", !.result = "error"])
                /\ UNCHANGED <<chain, pending_transactions, nextId>>
           ELSE /\ nextId <= MaxTx
                /\ nextId' = nextId + 1
                /\ Enqueue(t, [me EXCEPT !.pc = "mine_start",
                                         !.transaction = tx1,
                                         !.result = "success"], tx1)
        /\ UNCHANGED <<difficulty, balances, registered_tokens, wallets, now,
                       ret, feedVars, aliased>>

\* create_transaction up to its validation (blockchain.py:90-95)
TxValidate(t) ==
    LET me == threads[t]
        tx1 == Stamp(me.transaction, nextId, now)
    IN  /\ me.pc = "tx_validate"
        /\ IF ~_validate_transaction(tx1, balances)
           THEN /\ Goto(t, [me EXCEPT !.pc = "done", !.result = "ValueError"])
                /\ UNCHANGED nextId
           ELSE /\ nextId <= MaxTx
                /\ nextId' = nextId + 1
                /\ Goto(t, [me EXCEPT !.pc = "tx_append", !.transaction = tx1])
        /\ UNCHANGED <<chain, pending_transactions, difficulty, balances,
                       registered_tokens, wallets, now, ret, feedVars, aliased>>

\* self.pending_transactions.append(transaction); return the id
\* (blockchain.py:97-98)
TxAppend(t) ==
    LET me == threads[t]
    IN  /\ me.pc = "tx_append"
        /\ Enqueue(t, [me EXCEPT !.pc = "done", !.result = "id"],
                   me.transaction)
        /\ UNCHANGED <<difficulty, balances, registered_tokens, wallets, now,
                       nextId, ret, feedVars, aliased>>

\* mine_pending_transactions: the test of the queue and Block(...), which
\* takes the pending list itself as its transactions (blockchain.py:62-70)
MineStart(t) ==
    LET me == threads[t]
    IN  /\ me.pc = "mine_start"
        /\ IF pending_transactions = <<>>
           THEN Goto(t, [me EXCEPT !.pc = "done",
                            !.result = IF me.job = "mine" THEN "False" ELSE @])
           ELSE Goto(t, [me EXCEPT
                            !.pc = "mine_seal",
                            !.block = Block(Len(chain), pending_transactions,
                                            now, get_latest_block(chain).hash),
                            !.shares = TRUE])
        /\ UNCHANGED <<chain, pending_transactions, difficulty, balances,
                       registered_tokens, wallets, now, nextId, ret, feedVars,
                       aliased>>

\* the proof-of-work loop: the hash that ends it is of the transactions
\* the block holds at that moment (blockchain.py:72-74)
MineSeal(t) ==
    LET me == threads[t]
    IN  /\ me.pc = "mine_seal"
        /\ Goto(t, [me EXCEPT
                        !.pc = "mine_append",
                        !.block = ProofOfWork(
                                      Block(me.block.index,
                                            me.block.transactions,
                                            me.block.timestamp,
                                            me.block.previous_hash),
                                      difficulty)])
        /\ UNCHANGED <<chain, pending_transactions, difficulty, balances,
                       registered_tokens, wallets, now, nextId, ret, feedVars,
                       aliased>>

\* self.chain.append(block) (blockchain.py:77)
MineAppend(t) ==
    LET me == threads[t]
    IN  /\ me.pc = "mine_append"
        /\ chain' = Append(chain, me.block)
        /\ aliased' = IF me.shares THEN aliased \cup {Len(chain) + 1}
                      ELSE aliased
        /\ Goto(t, [me EXCEPT !.pc = "mine_ledger", !.shares = FALSE])
        /\ UNCHANGED <<pending_transactions, difficulty, balances,
                       registered_tokens, wallets, now, nextId, ret, feedVars>>

\* for tx in self.pending_transactions: self._update_balances(tx)
\* (blockchain.py:80-81)
MineLedger(t) ==
    LET me == threads[t]
    IN  /\ me.pc = "mine_ledger"
        /\ balances' = ProcessTransactions(balances, pending_transactions, 1)
        /\ Goto(t, [me EXCEPT !.pc = "mine_reset"])
        /\ UNCHANGED <<chain, pending_transactions, difficulty,
                       registered_tokens, wallets, now, nextId, ret, feedVars,
                       aliased>>

\* self.pending_transactions = []: a new list object; the blocks that held
\* the old one keep it (blockchain.py:84-85)
MineReset(t) ==
    LET me == threads[t]
    IN  /\ me.pc = "mine_reset"
        /\ pending_transactions' = <<>>
        /\ aliased' = {}
        /\ threads' =
               [u \in Threads |->
                   IF u = t
                   THEN [me EXCEPT !.pc = "done",
                                   !.result = IF me.job = "mine" THEN "True"
                                              ELSE @]
                   ELSE [threads[u] EXCEPT !.shares = FALSE]]
        /\ UNCHANGED <<chain, difficulty, balances, registered_tokens,
                       wallets, now, nextId, ret, feedVars>>

\* the platform with a wallet opened, before any request
RaceInit ==
    /\ now = 0
    /\ chain = << GenesisBlock(0) >>
    /\ pending_transactions = <<>>
    /\ difficulty \in Difficulties
    /\ balances = EmptyDict
    /\ registered_tokens =
           [s \in Tokens |-> CompanyToken(s, 1000000, SeedPrice, 0)]
    /\ wallets = [u \in {"alice"} |-> Wallet(u, RaceBalance, 0)]
    /\ nextId = 1
    /\ ret = "None"
    /\ Offline
    /\ NoRequests

Arrive ==
    \E t \in Threads :
        \/ \E r \in RaceRequests : BuyRequest(t, r)
        \/ \E transaction \in RaceTransactions : SubmitRequest(t, transaction)
        \/ MineRequest(t)

BuyStep ==
    \E t \in Threads : BuyCheck(t) \/ BuyDeduct(t) \/ BuyCredit(t) \/ BuySubmit(t)

SubmitStep == \E t \in Threads : TxValidate(t) \/ TxAppend(t)

MineStep ==
    \E t \in Threads :
        MineStart(t) \/ MineSeal(t) \/ MineAppend(t) \/ MineLedger(t)
            \/ MineReset(t)

\* two requests arrive, at any moments, and run to their answers
RaceNext == Arrive \/ BuyStep \/ SubmitStep \/ MineStep

RaceSpec == RaceInit /\ [][RaceNext]_vars

----------------------------------------------------------------------------
(* Properties of the chain and of the ledger *)

Addresses == {"MINT", "SYSTEM", "alice", "bob"}

RequiredFields == {"from_address", "to_address", "amount", "token_symbol"}

\* every (address, token) reads the same in the ledger before and after
LedgerSame ==
    \A a \in Addresses, t \in Tokens :
        get_balance(balances', a, t) = get_balance(balances, a, t)

\* the ledger obtained by replaying the mined blocks, in order, from nothing
RECURSIVE LedgerOf(_, _, _)
LedgerOf(ch, i, bals) ==
    IF i > Len(ch) THEN bals
    ELSE LedgerOf(ch, i + 1, ProcessTransactions(bals, ch[i].transactions, 1))

\* C1: after any sequence of create_transaction and mine calls on a fresh
\* chain, is_chain_valid() is true: every block after genesis stores the hash
\* of its content, links to the stored hash of its predecessor and has the
\* difficulty prefix.
C1_ChainValid == is_chain_valid(chain, difficulty)

\* two blocks were mined, with a proof of work to do
C1_Witness == Len(chain) = 3 /\ difficulty = 1 /\ chain[2].hash # chain[1].hash

\* C2: a buy or sell whose transaction create_transaction rejects leaves the
\* wallet (settlement balance, holdings, history) and the token (trade log,
\* volume, candle volume) exactly as they were before the call.
C2_RejectedTradeChangesNothing ==
    [][ \A u \in TradeUsers, s \in TradeSymbols, q \in Quantities :
          ((buy_tokens(u, s, q) \/ sell_tokens(u, s, q)) /\ ret' = "ValueError")
              => (wallets' = wallets /\ registered_tokens' = registered_tokens)
      ]_vars

\* C3: a mine with a non-empty queue returns true, appends exactly one block
\* holding the whole queue in its order, and leaves the queue empty.
C3_MineDrainsQueue ==
    [][ \A m \in {"SYSTEM"} :
          (mine_pending_transactions(m) /\ pending_transactions # <<>>) =>
              /\ ret' = "True"
              /\ Len(chain') = Len(chain) + 1
              /\ SubSeq(chain', 1, Len(chain)) = chain
              /\ chain'[Len(chain')].transactions = pending_transactions
              /\ chain'[Len(chain')].index = Len(chain)
              /\ pending_transactions' = <<>> ]_vars

\* a block with two transactions was just mined
C3_Witness ==
    /\ ret = "True"
    /\ pending_transactions = <<>>
    /\ Len(chain) = 2
    /\ Len(chain[2].transactions) = 2

\* C4: a mine with an empty queue returns false and leaves the chain, the
\* queue and every balance as they were.
C4_EmptyMineNoOp ==
    [][ \A m \in {"SYSTEM"} :
          (mine_pending_transactions(m) /\ pending_transactions = <<>>) =>
              /\ ret' = "False"
              /\ chain' = chain
              /\ pending_transactions' = <<>>
              /\ balances' = balances ]_vars

\* a mine found nothing to do on a chain that already has a mined block
C4_Witness == ret = "False" /\ Len(chain) >= 2 /\ pending_transactions = <<>>

\* C5: create_transaction, accepted or rejected, changes no balance; a
\* balance changes only in a mine; and after every step the ledger is the
\* replay of the mined blocks, whatever is pending.
C5_LedgerOnlyInMine ==
    [][ /\ \A tx \in TxInputs : create_transaction(tx) => LedgerSame
        /\ ~LedgerSame => \E m \in {"SYSTEM"} : mine_pending_transactions(m)
        /\ balances' = LedgerOf(chain', 1, EmptyDict)
      ]_vars

\* a credit is pending on top of a mined balance, which it has not changed
C5_Witness ==
    /\ ret = "id"
    /\ Len(pending_transactions) = 1
    /\ pending_transactions[1].to_address = "alice"
    /\ pending_transactions[1].amount = 2
    /\ get_balance(balances, "alice", "TKA") = 1

\* every dict in the queue or in a block has its required fields
WellFormed(ch, pend) ==
    /\ \A i \in 1..Len(ch) : \A j \in 1..Len(ch[i].transactions) :
           RequiredFields \subseteq DOMAIN ch[i].transactions[j]
    /\ \A j \in 1..Len(pend) : RequiredFields \subseteq DOMAIN pend[j]

\* C6: a rejected create_transaction (a required field missing, or the
\* balance check failed) raises and leaves queue, chain and ledger as they
\* were; a dict without its required fields is never queued nor mined.
C6_RejectedNeverQueued ==
    [][ /\ \A tx \in TxInputs :
             create_transaction(tx) =>
                 /\ ret' = "ValueError" =>
                        /\ pending_transactions' = pending_transactions
                        /\ chain' = chain
                        /\ balances' = balances
                 /\ ~_validate_transaction(Stamp(tx, nextId, now), balances) =>
                        ret' = "ValueError"
                 /\ ~(RequiredFields \subseteq DOMAIN tx) => ret' = "ValueError"
        /\ WellFormed(chain', pending_transactions')
      ]_vars

\* a submission was rejected while another transaction was waiting
C6_Witness == ret = "ValueError" /\ Len(pending_transactions) = 1

IsSell(tx) ==
    /\ RequiredFields \subseteq DOMAIN tx
    /\ TypeOf(tx) = "SELL"
    /\ tx.from_address \notin {"MINT", "SYSTEM"}

\* C7: a SELL from a sender other than MINT/SYSTEM is queued only if the
\* sender's balance of the token is at least the amount when it is submitted;
\* with a smaller balance it is rejected.
C7_SellNeedsBalance ==
    [][ \A tx \in TxInputs :
          (create_transaction(tx) /\ IsSell(tx)) =>
              LET have == get_balance(balances, tx.from_address, tx.token_symbol)
              IN  /\ ret' = "id" => have >= tx.amount
                  /\ have < tx.amount =>
                        (ret' = "ValueError"
                           /\ pending_transactions' = pending_transactions)
      ]_vars

\* a SELL of the whole balance is in the queue
C7_Witness ==
    /\ Len(pending_transactions) = 1
    /\ TypeOf(pending_transactions[1]) = "SELL"
    /\ pending_transactions[1].from_address = "alice"
    /\ pending_transactions[1].amount = 2
    /\ get_balance(balances, "alice", "TKA") = 2

IsTransfer(tx) ==
    /\ RequiredFields \subseteq DOMAIN tx
    /\ TypeOf(tx) \notin {"BUY", "SELL"}
    /\ tx.from_address \notin {"MINT", "SYSTEM"}

\* C8: a TRANSFER (no type) from a sender other than MINT/SYSTEM is queued
\* only if the sender's balance of the token is at least the amount.
C8_TransferNeedsBalance ==
    [][ \A tx \in TxInputs :
          (create_transaction(tx) /\ IsTransfer(tx) /\ ret' = "id") =>
              get_balance(balances, tx.from_address, tx.token_symbol) >= tx.amount
      ]_vars

\* the ledger as get_balance shows it, with the set of (address, token)
\* entries that exist in it
Entries(bals) ==
    { p \in Addresses \X Tokens :
        p[1] \in DOMAIN bals /\ p[2] \in DOMAIN bals[p[1]] }

Snapshot(bals) ==
    [bal |-> [p \in Addresses \X Tokens |-> get_balance(bals, p[1], p[2])],
     has |-> Entries(bals)]

Credit(bal, a, t, x) == [bal EXCEPT ![<<a, t>>] = @ + x]

\* the per-kind reference as stated: BUY credits the receiver, SELL debits
\* the sender, MINT/SYSTEM credits the receiver, TRANSFER does both
StatedEffect(st, tx) ==
    LET f == tx.from_address
        r == tx.to_address
        t == tx.token_symbol
        x == tx.amount
    IN  [st EXCEPT !.bal =
            IF TypeOf(tx) = "BUY" THEN Credit(@, r, t, x)
            ELSE IF TypeOf(tx) = "SELL" THEN Credit(@, f, t, -x)
            ELSE IF f \in {"MINT", "SYSTEM"} THEN Credit(@, r, t, x)
            ELSE Credit(Credit(@, f, t, -x), r, t, x)]

\* the same, a SELL debiting only a sender that has an entry for the token
\* (the receiver's entry is made first, for every kind)
EntryAwareEffect(st, tx) ==
    LET f == tx.from_address
        r == tx.to_address
        t == tx.token_symbol
        x == tx.amount
        has1 == st.has \cup {<<r, t>>}
    IN  IF TypeOf(tx) = "BUY"
        THEN [bal |-> Credit(st.bal, r, t, x), has |-> has1]
        ELSE IF TypeOf(tx) = "SELL"
        THEN [bal |-> IF <<f, t>> \in has1 THEN Credit(st.bal, f, t, -x)
                      ELSE st.bal,
              has |-> has1]
        ELSE IF f \in {"MINT", "SYSTEM"}
        THEN [bal |-> Credit(st.bal, r, t, x), has |-> has1]
        ELSE [bal |-> Credit(Credit(st.bal, f, t, -x), r, t, x),
              has |-> has1 \cup {<<f, t>>}]

RECURSIVE StatedReplay(_, _, _)
StatedReplay(st, txs, i) ==
    IF i > Len(txs) THEN st
    ELSE StatedReplay(StatedEffect(st, txs[i]), txs, i + 1)

RECURSIVE EntryAwareReplay(_, _, _)
EntryAwareReplay(st, txs, i) ==
    IF i > Len(txs) THEN st
    ELSE EntryAwareReplay(EntryAwareEffect(st, txs[i]), txs, i + 1)

\* C9 as stated: a mine changes the balances as the per-kind reference says,
\* once per transaction in block order (BUY: credit receiver; SELL: debit
\* sender; MINT/SYSTEM: credit receiver; TRANSFER: both), nothing else.
C9_StatedLedgerEffect ==
    [][ \A m \in {"SYSTEM"} :
          (mine_pending_transactions(m) /\ pending_transactions # <<>>) =>
              \A p \in Addresses \X Tokens :
                  get_balance(balances', p[1], p[2]) =
                      StatedReplay(Snapshot(balances), pending_transactions, 1).bal[p]
      ]_vars

\* C9, amended: the same, except that a SELL debits its sender only if the
\* sender has a ledger entry for the token when the SELL is replayed, and
\* changes no balance otherwise.
C9_LedgerEffect ==
    [][ \A m \in {"SYSTEM"} :
          (mine_pending_transactions(m) /\ pending_transactions # <<>>) =>
              LET after == EntryAwareReplay(Snapshot(balances),
                                            pending_transactions, 1)
              IN  /\ \A p \in Addresses \X Tokens :
                        get_balance(balances', p[1], p[2]) = after.bal[p]
                  /\ Entries(balances') = after.has
      ]_vars

\* a SELL was mined after the mint that funded it, and debited the seller
C9_Witness ==
    /\ ret = "True"
    /\ Len(chain) = 3
    /\ TypeOf(chain[3].transactions[1]) = "SELL"
    /\ chain[3].transactions[1].from_address = "alice"
    /\ get_balance(balances, "alice", "TKA") = 1

\* C10: every block appended by mine has a hash whose hex form starts with
\* `difficulty` zeros.
C10_SealedPrefix ==
    \A i \in 2..Len(chain) : StartsWithZeros(chain[i].hash, difficulty)

\* a block whose candidate hash lacked the prefix was sealed with a nonce
C10_Witness ==
    /\ difficulty = 1
    /\ Len(chain) >= 2
    /\ chain[2].nonce > 0

----------------------------------------------------------------------------
(* Properties of the trade executor *)

TradeFailures ==
    {"Wallet not found", "Token not found", "Insufficient funds",
     "Insufficient tokens"}

\* wallets, tokens, queue, chain and ledger are what they were
TradeStateSame ==
    /\ wallets' = wallets
    /\ registered_tokens' = registered_tokens
    /\ pending_transactions' = pending_transactions
    /\ chain' = chain
    /\ balances' = balances

\* q of s costs the wallet of u more than it has
CannotAfford(u, s, q) ==
    100 * wallets[u].usd_balance <
        (100 + FeePercent) * q * registered_tokens[s].price

\* C11: a buy or sell that returns a failure result leaves wallets, tokens,
\* the pending queue, the chain and the ledger unchanged; and an unknown
\* wallet, an unknown token, a balance below cost plus fee and a holding
\* below the quantity each give a failure result.
C11_FailedTradeChangesNothing ==
    [][ \A r \in TradeRequests :
          LET u == r[1]
              s == r[2]
              q == r[3]
              known == u \in DOMAIN wallets /\ s \in DOMAIN registered_tokens
          IN  /\ buy_tokens(u, s, q) =>
                    /\ ret' \in TradeFailures => TradeStateSame
                    /\ u \notin DOMAIN wallets => ret' = "Wallet not found"
                    /\ (u \in DOMAIN wallets
                           /\ s \notin DOMAIN registered_tokens)
                          => ret' = "Token not found"
                    /\ (known /\ CannotAfford(u, s, q))
                          => ret' = "Insufficient funds"
              /\ sell_tokens(u, s, q) =>
                    /\ ret' \in TradeFailures => TradeStateSame
                    /\ u \notin DOMAIN wallets => ret' = "Wallet not found"
                    /\ (u \in DOMAIN wallets
                           /\ s \notin DOMAIN registered_tokens)
                          => ret' = "Token not found"
                    /\ (known /\ wallet_get_balance(wallets[u], s) < q)
                          => ret' = "Insufficient tokens"
      ]_vars

\* a purchase was refused for lack of funds, after one that went through
C11_Witness ==
    /\ ret = "Insufficient funds"
    /\ "alice" \in DOMAIN wallets
    /\ wallets["alice"].usd_balance = 4800
    /\ Len(wallets["alice"].transaction_history) = 1
    /\ Len(pending_transactions) = 1

\* C12: a buy of q of a token priced p by a known wallet succeeds exactly
\* when the settlement balance is at least q*p + q*p*f; a successful buy
\* debits the settlement balance by exactly q*p + q*p*f and credits the
\* holding of the token by exactly q.
C12_BuyDebitsCostPlusFee ==
    [][ \A r \in TradeRequests :
          LET u == r[1]
              s == r[2]
              q == r[3]
          IN
          (buy_tokens(u, s, q) /\ u \in DOMAIN wallets
              /\ s \in DOMAIN registered_tokens) =>
              LET p == registered_tokens[s].price
              IN  /\ (ret' = "success") <=> ~CannotAfford(u, s, q)
                  /\ ret' = "success" =>
                        /\ 100 * (wallets[u].usd_balance
                                    - wallets'[u].usd_balance)
                              = (100 + FeePercent) * q * p
                        /\ wallet_get_balance(wallets'[u], s)
                              = wallet_get_balance(wallets[u], s) + q
      ]_vars

\* a second purchase went through: 25000 - 2 * (10000 + 100) is left
C12_Witness ==
    /\ ret = "success"
    /\ "alice" \in DOMAIN wallets
    /\ wallets["alice"].usd_balance = 4800
    /\ wallet_get_balance(wallets["alice"], "TKA") = 2
    /\ Len(wallets["alice"].transaction_history) = 2
    /\ wallets["alice"].transaction_history[2].type = "BUY"

\* the last entry of the wallet's history is a purchase of q of s at price p
JustBought(w, s, q, p) ==
    LET h == w.transaction_history
    IN  /\ Len(h) > 0
        /\ h[Len(h)].type = "BUY"
        /\ h[Len(h)].token_symbol = s
        /\ h[Len(h)].amount = q
        /\ h[Len(h)].price = p

\* a wallet whose whole history is a purchase followed by the sale of the
\* same quantity at the same price has its first balance less two fees and
\* holds nothing
RoundTripFromNew(w) ==
    LET h == w.transaction_history
    IN  (/\ Len(h) = 3
         /\ h[1].type = "BUY" /\ h[2].type = "DEPOSIT" /\ h[3].type = "SELL"
         /\ h[1].token_symbol = h[3].token_symbol
         /\ h[1].amount = h[3].amount
         /\ h[1].price = h[3].price)
        => /\ \E b \in InitialBalances :
                 100 * (b - w.usd_balance)
                     = 2 * h[1].amount * h[1].price * FeePercent
           /\ wallet_get_balance(w, h[1].token_symbol) = 0

\* C13: buying q of a token at price p and then immediately selling the same
\* q at the same p leaves the settlement balance 2*q*p*f below what it was
\* before the purchase, and the holding of the token at what it was before
\* the purchase.
C13_RoundTripCostsTwoFees ==
    [][ /\ \A r \in TradeRequests :
             LET u == r[1]
                 s == r[2]
                 q == r[3]
             IN
             (sell_tokens(u, s, q) /\ ~SellFails(u, s, q)
                 /\ JustBought(wallets[u], s, q, registered_tokens[s].price)) =>
                 LET p == registered_tokens[s].price
                     h == wallets[u].transaction_history
                     paid == h[Len(h)].total + h[Len(h)].fee
                 IN  /\ 100 * (wallets[u].usd_balance + paid
                                  - wallets'[u].usd_balance)
                           = 2 * q * p * FeePercent
                     /\ wallet_get_balance(wallets'[u], s)
                           = wallet_get_balance(wallets[u], s) - q
        /\ \A u \in DOMAIN wallets' : RoundTripFromNew(wallets'[u])
      ]_vars

\* two were bought and two sold: 25000 - 2 * 200 is left, and no holding
C13_Witness ==
    /\ "alice" \in DOMAIN wallets
    /\ Len(wallets["alice"].transaction_history) = 3
    /\ wallets["alice"].transaction_history[1].type = "BUY"
    /\ wallets["alice"].transaction_history[1].amount = 2
    /\ wallets["alice"].transaction_history[3].type = "SELL"
    /\ wallets["alice"].transaction_history[3].amount = 2
    /\ wallets["alice"].usd_balance = 24600
    /\ wallet_get_balance(wallets["alice"], "TKA") = 0

\* the block a route has just mined holds, last, a trade of kind trade_type
\* by the wallet of u on q of s, sent by the wallet's address to itself, and
\* the ledger balance of that address has moved by delta
MinedTrade(u, s, q, trade_type, delta) ==
    LET block == chain'[Len(chain')]
        tx == block.transactions[Len(block.transactions)]
        address == wallets[u].address
    IN  /\ Len(chain') = Len(chain) + 1
        /\ SubSeq(chain', 1, Len(chain)) = chain
        /\ Len(block.transactions) = Len(pending_transactions) + 1
        /\ TypeOf(tx) = trade_type
        /\ tx.from_address = address
        /\ tx.to_address = address
        /\ tx.amount = q
        /\ tx.token_symbol = s
        /\ pending_transactions' = <<>>
        /\ get_balance(balances', address, s)
              = get_balance(balances, address, s) + delta
        /\ balances' = LedgerOf(chain', 1, EmptyDict)

\* C14: a successful buy or sell through its route submits one BUY or SELL
\* transaction from the wallet's address to itself and mines: when the
\* route answers, the transaction is in the newest block, the queue is
\* empty and the ledger holds the trade.
C14_RouteMinesTrade ==
    [][ \A r \in TradeRequests :
          LET u == r[1]
              s == r[2]
              q == r[3]
          IN
          /\ (api_buy(u, s, q) /\ ret' = "success")
                => MinedTrade(u, s, q, "BUY", q)
          /\ (api_sell(u, s, q) /\ ret' = "success")
                => MinedTrade(u, s, q, "SELL", -q)
      ]_vars

\* two were bought and mined, then one was sold and mined
C14_Witness ==
    /\ ret = "success"
    /\ Len(chain) = 3
    /\ pending_transactions = <<>>
    /\ TypeOf(chain[2].transactions[1]) = "BUY"
    /\ TypeOf(chain[3].transactions[1]) = "SELL"
    /\ get_balance(balances, "w-alice", "TKA") = 1

\* C15: after any sequence of buy and sell calls, of any quantity, every
\* wallet has a settlement balance of at least zero and holds at least zero
\* of every token.
C15_WalletNonNegative ==
    \A u \in DOMAIN wallets :
        /\ wallets[u].usd_balance >= 0
        /\ \A s \in DOMAIN wallets[u].token_balances :
              wallets[u].token_balances[s] >= 0

----------------------------------------------------------------------------
(* Properties of the token registry and of the supply *)

\* the queue has grown by one MINT of amount a of token s
QueuedMint(s, a) ==
    /\ Len(pending_transactions') = Len(pending_transactions) + 1
    /\ SubSeq(pending_transactions', 1, Len(pending_transactions))
          = pending_transactions
    /\ LET tx == pending_transactions'[Len(pending_transactions')]
       IN  /\ TypeOf(tx) = "MINT"
           /\ tx.from_address = "MINT"
           /\ tx.amount = a
           /\ tx.token_symbol = s

\* C16: circulating_supply <= total_supply for every token after any
\* sequence of mints; a mint that would push circulating supply above total
\* supply raises and changes neither the circulating supply nor the queue;
\* an accepted mint queues one MINT transaction and raises the circulating
\* supply by exactly the amount.
C16_MintKeepsSupply ==
    [][ /\ \A s \in Tokens, a \in Amounts :
             (s \in DOMAIN registered_tokens /\ mint(s, a, "alice")) =>
                 LET token == registered_tokens[s]
                 IN  IF token.circulating_supply + a > token.total_supply
                     THEN /\ ret' = "ValueError"
                          /\ registered_tokens' = registered_tokens
                          /\ pending_transactions' = pending_transactions
                     ELSE /\ ret' = "True"
                          /\ registered_tokens'[s].circulating_supply
                                = token.circulating_supply + a
                          /\ QueuedMint(s, a)
        /\ \A s \in DOMAIN registered_tokens' :
              registered_tokens'[s].circulating_supply
                  <= registered_tokens'[s].total_supply
      ]_vars

\* a token of supply 3 has 2 in circulation and a mint has just been refused
C16_Witness ==
    /\ ret = "ValueError"
    /\ "TKA" \in DOMAIN registered_tokens
    /\ registered_tokens["TKA"].total_supply = 3
    /\ registered_tokens["TKA"].circulating_supply = 2
    /\ Len(pending_transactions) = 1
    /\ TypeOf(pending_transactions[1]) = "MINT"

\* C17: registering a token whose symbol is already registered raises and
\* leaves the registry as it was: the token registered first stays bound to
\* the symbol and no symbol is added or removed.  (A token whose symbol is
\* free is bound to it, the other symbols keeping their tokens.)
C17_DuplicateRegistrationRejected ==
    [][ \A symbol \in NewSymbols, supply \in Supplies :
          LET token == CompanyToken(symbol, supply, SeedPrice, now)
          IN  register_token(token) =>
                  IF token.symbol \in DOMAIN registered_tokens
                  THEN /\ ret' = "ValueError"
                       /\ DOMAIN registered_tokens' = DOMAIN registered_tokens
                       /\ \A s \in DOMAIN registered_tokens :
                             registered_tokens'[s] = registered_tokens[s]
                  ELSE /\ ret' = "True"
                       /\ DOMAIN registered_tokens'
                             = DOMAIN registered_tokens \cup {token.symbol}
                       /\ registered_tokens'[token.symbol] = token
                       /\ \A s \in DOMAIN registered_tokens :
                             registered_tokens'[s] = registered_tokens[s]
      ]_vars

\* TKA was registered at time 0 and a second registration, at time 1, has
\* just been refused: nothing is minted, so no mint was refused
C17_Witness ==
    /\ ret = "ValueError"
    /\ now = 1
    /\ "TKA" \in DOMAIN registered_tokens
    /\ registered_tokens["TKA"].circulating_supply = 0
    /\ registered_tokens["TKA"].candlestick_data[1].timestamp
          = 0 - SeedCandles * CandlePeriod
    /\ pending_transactions = <<>>
    /\ Len(chain) = 1

\* C18: deleting a registered symbol through the administrator's route
\* succeeds and takes the symbol out of registered_tokens.
C18_DeleteRetractsToken ==
    [][ \A s \in TradeSymbols :
          (admin_delete_token(s, "admin") /\ s \in DOMAIN registered_tokens) =>
              /\ ret' = "success"
              /\ s \notin DOMAIN registered_tokens'
      ]_vars

----------------------------------------------------------------------------
(* Properties of the candle series *)

\* the token has a candle and it is younger than the candle period
CandleOpen(token, t) ==
    /\ Len(token.candlestick_data) > 0
    /\ t - token.candlestick_data[Len(token.candlestick_data)].timestamp
          < CandlePeriod

OpenedCandle(before, new_price, t) ==
    LET n == Len(before.candlestick_data)
    IN  [timestamp |-> t,
         open |-> IF n > 0 THEN before.candlestick_data[n].close
                  ELSE new_price,
         high |-> new_price, low |-> new_price, close |-> new_price,
         volume |-> 0]

\* C20: a price update that is forced, or that finds no candle younger than
\* the candle period (the series may be empty), appends (now, new_price) to
\* the price history and appends a new candle: open = the previous candle's
\* close (the new price when there is no candle), high = low = close =
\* new_price, volume = 0; both series keep their last HistoryCap entries.
C20_ForcedOrLateUpdateOpensCandle ==
    [][ \A s \in Tokens, new_price \in Prices, force \in BOOLEAN :
          (UpdateTokenPrice(s, new_price, force)
              /\ (force \/ ~CandleOpen(registered_tokens[s], now))) =>
              LET before == registered_tokens[s]
                  after == registered_tokens'[s]
              IN  /\ after.price = new_price
                  /\ after.price_history =
                        LastN(Append(before.price_history, <<now, new_price>>),
                              HistoryCap)
                  /\ after.candlestick_data =
                        LastN(Append(before.candlestick_data,
                                     OpenedCandle(before, new_price, now)),
                              HistoryCap)
      ]_vars

----------------------------------------------------------------------------
(* Properties of the bounded series *)

\* after is before with at most one entry appended, cut to its most recent
\* HistoryCap entries, in their order
KeepsRecent(before, after) ==
    \/ after = before
    \/ /\ Len(after) > 0
       /\ after = LastN(Append(before, after[Len(after)]), HistoryCap)

\* the same for candles, whose active (last) candle may also be rewritten
KeepsRecentCandles(before, after) ==
    \/ KeepsRecent(before, after)
    \/ /\ Len(after) = Len(before)
       /\ \A i \in 1..(Len(after) - 1) : after[i] = before[i]

SeriesCapped(token) ==
    /\ Len(token.price_history) <= HistoryCap
    /\ Len(token.emission_history) <= HistoryCap
    /\ Len(token.candlestick_data) <= HistoryCap

\* C21: a token the bootstrap created keeps at most HistoryCap (100) entries
\* in its price history, its emission history and its candle series through
\* every emission update, price update and trade record, and what each step
\* retains is the most recent entries in their original order: the oldest
\* entry is the one dropped, and the entry an update appends is the newest
C21_SeriesCapped ==
    /\ \A s \in DOMAIN registered_tokens : SeriesCapped(registered_tokens[s])
    /\ [][\A s \in DOMAIN registered_tokens :
            /\ SeriesCapped(registered_tokens'[s])
            /\ KeepsRecent(registered_tokens[s].price_history,
                           registered_tokens'[s].price_history)
            /\ KeepsRecent(registered_tokens[s].emission_history,
                           registered_tokens'[s].emission_history)
            /\ KeepsRecentCandles(registered_tokens[s].candlestick_data,
                                  registered_tokens'[s].candlestick_data)
            /\ \A new_emissions \in Emissions :
                   UpdateTokenEmissions(s, new_emissions) =>
                       LET h == registered_tokens'[s].emission_history
                       IN  h[Len(h)] = <<now, new_emissions>>
            /\ UpdateTokenPrice(s, SeedPrice + 1000, TRUE) =>
                   LET h == registered_tokens'[s].price_history
                   IN  h[Len(h)] = <<now, SeedPrice + 1000>>]_vars

\* every series is full and has dropped its last bootstrap entry
C21_Witness ==
    \E s \in DOMAIN registered_tokens :
        LET token == registered_tokens[s]
        IN  /\ Len(token.price_history) = HistoryCap
            /\ Len(token.emission_history) = HistoryCap
            /\ Len(token.candlestick_data) = HistoryCap
            /\ token.price_history[1][2] # SeedPrice
            /\ token.emission_history[1][2] # Baseline
            /\ token.candlestick_data[1].close # SeedPrice
            /\ Len(token.trades) > 0

----------------------------------------------------------------------------
(* Properties of the price engine *)

\* C22: the price calculate_price_update returns is never below 0.01,
\* whatever the current price, the emission performance (however large),
\* the trading volume and the sentiment
C22_PriceFloor ==
    [][\A s \in Tokens, emission_performance \in Performances,
         trading_volume \in Volumes, market_sentiment \in Sentiments :
           Reprice(s, emission_performance, trading_volume, market_sentiment)
               => /\ calculate_price_update(registered_tokens[s],
                         emission_performance, trading_volume,
                         market_sentiment) >= 1
                  /\ registered_tokens'[s].price >= 1]_vars

\* a price below two cents halved: the floor lifted it to 0.01
C22_Witness ==
    \E s \in DOMAIN registered_tokens :
        LET h == registered_tokens[s].price_history
        IN  /\ Len(h) >= 2
            /\ h[Len(h) - 1][2] <= 1
            /\ h[Len(h)] = <<now, 1>>
            /\ registered_tokens[s].price = 1

\* the reference price formation: one emission impact (1 - performance) *
\* 0.5 on both sides of 1, the sum of the impacts as a percentage clamped
\* to [-50, 50], the floor 0.01, two decimals
ReferencePrice(price, emission_performance, trading_volume, market_sentiment) ==
    LET percent ==
            Max(Min(((1000 - emission_performance) * 5)
                      + ((market_sentiment - 50) * 60)
                      + ((Log1p(trading_volume) * 20) \div 1000), 5000),
                0 - 5000)
    IN  RoundCents(Max(price * (10000 + percent), 10000), 10000)

\* C23 as stated: calculate_price_update equals the reference formula and
\* so never moves the price by more than 50% in either direction
C23_StatedReferenceFormula ==
    [][\A s \in Tokens, emission_performance \in Performances,
         trading_volume \in Volumes, market_sentiment \in Sentiments :
           Reprice(s, emission_performance, trading_volume, market_sentiment)
               => LET before == registered_tokens[s].price
                      after == registered_tokens'[s].price
                  IN  /\ after = ReferencePrice(before, emission_performance,
                                     trading_volume, market_sentiment)
                      /\ 2 * after >= before
                      /\ 2 * after <= 3 * before]_vars

\* C23: calculate_price_update equals the reference formula; the price it
\* returns is within half a cent of a move of at most 50%, unless the floor
\* lifted it to 0.01
C23_ReferenceFormula ==
    [][\A s \in Tokens, emission_performance \in Performances,
         trading_volume \in Volumes, market_sentiment \in Sentiments :
           Reprice(s, emission_performance, trading_volume, market_sentiment)
               => LET before == registered_tokens[s].price
                      after == registered_tokens'[s].price
                  IN  /\ after = ReferencePrice(before, emission_performance,
                                     trading_volume, market_sentiment)
                      /\ \/ after = 1
                         \/ /\ 2 * after >= before - 1
                            /\ 2 * after <= 3 * before + 1]_vars

\* the example of the claim, 100.00 repriced to 110.00, and a price of odd
\* cents halved to a cent below its half
C23_Witness ==
    \E s \in DOMAIN registered_tokens :
        LET h == registered_tokens[s].price_history
        IN  /\ Len(h) >= 2
            /\ h[Len(h)][1] = now
            /\ \/ h[Len(h) - 1][2] = 10000 /\ h[Len(h)][2] = 11000
               \/ h[Len(h) - 1][2] = 5 /\ h[Len(h)][2] = 2

----------------------------------------------------------------------------
(* Properties of the emission feed and of the token store *)

SamePersisted(a, b) ==
    /\ a.symbol = b.symbol
    /\ a.company_name = b.company_name
    /\ a.total_supply = b.total_supply
    /\ a.circulating_supply = b.circulating_supply
    /\ a.emission_baseline = b.emission_baseline
    /\ a.current_emissions = b.current_emissions
    /\ a.price = b.price
    /\ a.price_history = b.price_history
    /\ a.emission_history = b.emission_history
    /\ a.candlestick_data = b.candlestick_data
    /\ a.volume_24h = b.volume_24h
    /\ a.is_verified = b.is_verified
    /\ a.created_at = b.created_at
    /\ a.owner_address = b.owner_address

----------------------------------------------------------------------------
(* Properties of the wallet manager *)

\* C26: create_wallet for a username that has a wallet returns that wallet
\* and changes nothing: address, balance, holdings and history stay, the
\* initial_balance of the call is ignored, no wallet is added
C26_CreateWalletIdempotent ==
    [][\A u \in TradeUsers, b \in OpeningBalances :
           (create_wallet(u, b) /\ u \in DOMAIN wallets) =>
               /\ wallets' = wallets
               /\ DOMAIN wallets' = DOMAIN wallets
               /\ ret' = wallets[u].address]_vars

\* a wallet that has traded was asked for again: the call returned it, with
\* a balance no call could have opened it with
C26_Witness ==
    \E u \in DOMAIN wallets :
        /\ ret = wallets[u].address
        /\ Len(wallets[u].transaction_history) > 0
        /\ wallets[u].usd_balance \notin OpeningBalances

----------------------------------------------------------------------------
(* Properties of concurrent requests *)

\* no thread is inside a call
Quiescent == \A t \in Threads : threads[t].pc \in {"idle", "done"}

\* the jobs of the two requests
Jobs == {threads[t].job : t \in Threads}

\* C27: under any interleaving of concurrent mine calls the chain stays
\* valid: no two blocks share an index or a previous_hash, every block
\* links to the stored hash of the block before it, is_chain_valid() is
\* true
C27_ConcurrentMinesKeepChain ==
    "submit" \notin Jobs =>
        /\ \A i, j \in 1..Len(chain) :
               i # j => /\ chain[i].index # chain[j].index
                        /\ chain[i].previous_hash # chain[j].previous_hash
        /\ \A i \in 2..Len(chain) : chain[i].previous_hash = chain[i - 1].hash
        /\ is_chain_valid(chain, difficulty)

\* how often the transaction with this id is in a list
Occurrences(transactions, id) ==
    Cardinality({i \in 1..Len(transactions) : transactions[i].id = id})

RECURSIVE InBlocks(_, _, _)
InBlocks(ch, i, id) ==
    IF i > Len(ch) THEN 0
    ELSE Occurrences(ch[i].transactions, id) + InBlocks(ch, i + 1, id)

\* C28: when create_transaction runs while one mine is running, every
\* accepted transaction ends up in exactly one place, the queue or one
\* block, it is in its block before the hash of the block is sealed, and
\* the ledger holds its effect exactly once when it is mined: the ledger is
\* the replay of the blocks and every block hashes to its stored hash
C28_AcceptedSealedOnce ==
    (Quiescent /\ \E t, u \in Threads :
                     /\ threads[t].job = "submit"
                     /\ threads[u].job \in {"buy", "mine"}) =>
        /\ \A id \in 1..(nextId - 1) :
               InBlocks(chain, 1, id) + Occurrences(pending_transactions, id) = 1
        /\ \A i \in 2..Len(chain) : chain[i].hash = calculate_hash(chain[i])
        /\ balances = LedgerOf(chain, 1, EmptyDict)

\* what the buys recorded in a wallet's history cost, fees included
RECURSIVE Spent(_, _)
Spent(history, i) ==
    IF i > Len(history) THEN 0
    ELSE (IF history[i].type = "BUY" THEN history[i].total + history[i].fee
          ELSE 0) + Spent(history, i + 1)

\* C29: when two buys run on one wallet at once, every buy that answers
\* success has debited its cost and fee: once both have answered, the
\* balance is the initial balance less the totals of the buys recorded, and
\* is not negative
C29_ConcurrentBuysDebited ==
    (Quiescent /\ Jobs = {"buy"}) =>
        \A u \in DOMAIN wallets :
            /\ wallets[u].usd_balance =
                   RaceBalance - Spent(wallets[u].transaction_history, 1)
            /\ wallets[u].usd_balance >= 0

----------------------------------------------------------------------------
(* Properties of the chain over the whole platform *)

\* C30: the chain is append-only across submit, mine, register, mint, buy
\* and sell: the blocks before a call are a prefix of the blocks after it,
\* so no mined block is removed, reordered or changed in its transactions
\* or its hash
C30_ChainAppendOnly ==
    [][/\ Len(chain') >= Len(chain)
       /\ SubSeq(chain', 1, Len(chain)) = chain]_vars

\* a block with a mint, and after it a block with a trade of a wallet
C30_Witness ==
    \E i, j \in 2..Len(chain) :
        /\ i < j
        /\ \E k \in 1..Len(chain[i].transactions) :
               TypeOf(chain[i].transactions[k]) = "MINT"
        /\ \E k \in 1..Len(chain[j].transactions) :
               TypeOf(chain[j].transactions[k]) \in {"BUY", "SELL"}
        /\ wallets # EmptyDict
        /\ registered_tokens # EmptyDict

----------------------------------------------------------------------------
(* Properties of the emission update and of the trade record *)

\* the fields of a token an emission update has no business with
EmissionFrame(token) ==
    [symbol |-> token.symbol, company_name |-> token.company_name,
     total_supply |-> token.total_supply,
     circulating_supply |-> token.circulating_supply,
     price |-> token.price, emission_baseline |-> token.emission_baseline,
     price_history |-> token.price_history,
     candlestick_data |-> token.candlestick_data,
     volume_24h |-> token.volume_24h, trades |-> token.trades,
     is_verified |-> token.is_verified, created_at |-> token.created_at,
     owner_address |-> token.owner_address]

\* C31: an emission update sets the token's current emission to the new
\* value and appends (now, new value) as the newest emission-history entry,
\* the entries before it being the previous ones in their order (the oldest
\* dropped when the cap is passed), and changes nothing else: baseline,
\* price, price history, candle series, supplies and every other field of the
\* token, and every other token, stay; and no step of the series (emission
\* update, price update, trade record) changes a token's baseline
C31_EmissionUpdateFrame ==
    [][ /\ \A s \in Tokens, new_emissions \in Emissions :
              UpdateTokenEmissions(s, new_emissions) =>
                  LET before == registered_tokens[s]
                      after == registered_tokens'[s]
                      h == after.emission_history
                      kept == Min(Len(before.emission_history), HistoryCap - 1)
                  IN  /\ after.current_emissions = new_emissions
                      /\ Len(h) = kept + 1
                      /\ h[Len(h)] = <<now, new_emissions>>
                      /\ \A i \in 1..kept :
                            h[i] = before.emission_history
                                      [Len(before.emission_history) - kept + i]
                      /\ EmissionFrame(after) = EmissionFrame(before)
                      /\ \A o \in Tokens \ {s} :
                            registered_tokens'[o] = registered_tokens[o]
        /\ \A s \in Tokens :
              registered_tokens'[s].emission_baseline =
                  registered_tokens[s].emission_baseline
      ]_vars

\* a token whose price was moved, on which a trade was recorded and whose
\* emission was then updated away from its baseline, at a later time
C31_Witness ==
    \E s \in Tokens :
        LET token == registered_tokens[s]
            h == token.emission_history
        IN  /\ token.current_emissions # token.emission_baseline
            /\ token.emission_baseline = Baseline
            /\ h[Len(h)] = <<now, token.current_emissions>>
            /\ now > 0
            /\ token.price # SeedPrice
            /\ Len(token.trades) > 0

\* a candle without its volume
Ohlc(candle) ==
    [timestamp |-> candle.timestamp, open |-> candle.open,
     high |-> candle.high, low |-> candle.low, close |-> candle.close]

\* C32: a trade record (amount, price, kind) appends exactly one entry, with
\* the time, the amount, the price and the kind, to the token's trade log,
\* increases the token's 24h volume by amount * price and, when the token has
\* a candle, increases the volume of the most recent candle by amount; every
\* other candle, and that candle's timestamp, open, high, low and close, are
\* unchanged, and a token without candles gets none
C32_TradeRecordEffect ==
    [][ \A s \in Tokens, amount \in Amounts, price \in Prices,
           trade_type \in {"BUY", "SELL"} :
          RecordTokenTrade(s, amount, price, trade_type) =>
              LET before == registered_tokens[s]
                  after == registered_tokens'[s]
                  n == Len(before.candlestick_data)
              IN  /\ Len(after.trades) = Len(before.trades) + 1
                  /\ SubSeq(after.trades, 1, Len(before.trades))
                        = before.trades
                  /\ after.trades[Len(after.trades)] =
                        [timestamp |-> now, amount |-> amount,
                         price |-> price, type |-> trade_type]
                  /\ after.volume_24h = before.volume_24h + amount * price
                  /\ Len(after.candlestick_data) = n
                  /\ \A i \in 1..(n - 1) :
                        after.candlestick_data[i] = before.candlestick_data[i]
                  /\ n > 0 =>
                        /\ after.candlestick_data[n].volume =
                              before.candlestick_data[n].volume + amount
                        /\ Ohlc(after.candlestick_data[n]) =
                              Ohlc(before.candlestick_data[n])
      ]_vars

\* two trades of different amounts, a SELL after a BUY, are on the log of a
\* token with two candles; the active candle carries the second one only
C32_Witness ==
    \E s \in Tokens :
        LET token == registered_tokens[s]
            n == Len(token.candlestick_data)
        IN  /\ Len(token.trades) = 2
            /\ token.trades[1].type = "BUY" /\ token.trades[1].amount = 1
            /\ token.trades[2].type = "SELL" /\ token.trades[2].amount = 2
            /\ n = 2
            /\ token.candlestick_data[n].volume = 2
            /\ token.candlestick_data[n - 1].volume = 1
            /\ token.volume_24h =
                  token.trades[1].price + 2 * token.trades[2].price

----------------------------------------------------------------------------
(* Properties of the device threads *)

\* the device thread of s is inside an update cycle: it has drawn a reading
\* and has not yet saved
InCycle(s) == devices[s].pc \in {"reading", "price", "timer", "save"}

\* C33: cancellation of the feed loop is cooperative: stop_simulation ends
\* no thread by itself, a thread leaves its loop only from the test of
\* running, so an update cycle in progress runs to its save, and after the
\* stop (running is false) no device thread starts an update cycle
C33_CooperativeStop ==
    [][ \A s \in Tokens :
          /\ stop_simulation => devices' = devices
          /\ (devices'[s].pc = "returned" /\ devices[s].pc # "returned")
                => (devices[s].pc = "while" /\ ~running)
          /\ (InCycle(s)' /\ ~InCycle(s)) => running
      ]_vars

\* C39: after force_update_all has reset the timers while the simulation
\* is running, a device loop that next reads its timer keeps running and
\* goes on to an update, without waiting for the rest of the interval
C39_ForcedUpdateRuns ==
    [][ \A s \in Tokens :
          (SimElapsed(s) /\ running /\ s \notin DOMAIN last_update_time)
              => InCycle(s)'
      ]_vars

----------------------------------------------------------------------------
(* Properties of the ledger, the wallets and the supply *)

\* C34: after any sequence of create_transaction and mine calls with
\* non-negative amounts no ledger balance is negative, however many
\* transactions of one sender were queued before a mine
C34_LedgerNonNegative ==
    \A address \in DOMAIN balances :
        \A token_symbol \in DOMAIN balances[address] :
            get_balance(balances, address, token_symbol) >= 0

\* C35: when all trading goes through the buy and sell routes, which mine
\* after each successful trade, then in every state where the pending queue
\* is empty each wallet holds of each token exactly the ledger balance of
\* the wallet's address
C35_WalletLedgerAgree ==
    pending_transactions = <<>> =>
        \A u \in DOMAIN wallets, s \in TradeSymbols :
            wallet_get_balance(wallets[u], s)
                = get_balance(balances, wallets[u].address, s)

\* alice bought two through the route and sold one; wallet and ledger both
\* show the one she has left, and her wallet has the two trades, and the
\* deposit of the proceeds, on record
C35_Witness ==
    /\ pending_transactions = <<>>
    /\ "alice" \in DOMAIN wallets
    /\ Len(wallets["alice"].transaction_history) = 3
    /\ wallets["alice"].transaction_history[1].type = "BUY"
    /\ wallets["alice"].transaction_history[3].type = "SELL"
    /\ wallet_get_balance(wallets["alice"], "TKA") = 1
    /\ get_balance(balances, wallets["alice"].address, "TKA") = 1

\* the sum of the balances of the addresses in as for the token
RECURSIVE LedgerSum(_, _, _)
LedgerSum(bals, as, token_symbol) ==
    IF as = {} THEN 0
    ELSE LET a == CHOOSE x \in as : TRUE
         IN  get_balance(bals, a, token_symbol)
                 + LedgerSum(bals, as \ {a}, token_symbol)

\* what the ledger holds of the token, over all addresses
LedgerTotal(token_symbol) == LedgerSum(balances, DOMAIN balances, token_symbol)

\* C36: for every registered token the ledger balances of the token, summed
\* over all addresses, exceed neither the token's total supply nor its
\* circulating supply, after any sequence of mints, buys, sells and mines
C36_LedgerWithinSupply ==
    \A s \in DOMAIN registered_tokens :
        /\ LedgerTotal(s) <= registered_tokens[s].total_supply
        /\ LedgerTotal(s) <= registered_tokens[s].circulating_supply

----------------------------------------------------------------------------
(* Properties of the candles and of the market price under trades *)

\* C37: after any sequence of price updates, forced or not, every candle of
\* every token is a well-formed OHLC record: low <= open <= high and
\* low <= close <= high
C37_CandlesWellFormed ==
    \A s \in DOMAIN registered_tokens :
        LET candles == registered_tokens[s].candlestick_data
        IN  \A i \in 1..Len(candles) :
                /\ candles[i].low <= candles[i].open
                /\ candles[i].open <= candles[i].high
                /\ candles[i].low <= candles[i].close
                /\ candles[i].close <= candles[i].high

\* after is before but for its trade log, its 24h volume and the volume of
\* its active (last) candle
MarketSame(before, after) ==
    LET n == Len(before.candlestick_data)
    IN  /\ EmissionFrame([after EXCEPT !.trades = before.trades,
                                       !.volume_24h = before.volume_24h,
                                       !.candlestick_data =
                                           before.candlestick_data])
              = EmissionFrame(before)
        /\ after.current_emissions = before.current_emissions
        /\ after.emission_history = before.emission_history
        /\ Len(after.candlestick_data) = n
        /\ \A i \in 1..n :
              Ohlc(after.candlestick_data[i]) = Ohlc(before.candlestick_data[i])
        /\ \A i \in 1..(n - 1) :
              after.candlestick_data[i] = before.candlestick_data[i]

\* C38: a buy or a sell, successful or failed, never moves the market: it
\* leaves every token's price, price history, emission state, number of
\* candles and every candle's timestamp, open, high, low and close as they
\* were; only the trade log, the 24h volume and the volume of the active
\* candle of the traded token may change, and those only grow by the trade
C38_TradesKeepPrice ==
    [][ \A r \in TradeRequests :
          (buy_tokens(r[1], r[2], r[3]) \/ sell_tokens(r[1], r[2], r[3])) =>
              /\ DOMAIN registered_tokens' = DOMAIN registered_tokens
              /\ \A s \in DOMAIN registered_tokens :
                    /\ MarketSame(registered_tokens[s], registered_tokens'[s])
                    /\ s # r[2] => registered_tokens'[s] = registered_tokens[s]
                    /\ ret' \notin {"success", "ValueError"} =>
                          registered_tokens'[s] = registered_tokens[s]
      ]_vars

\* a buy and a sell were recorded on the token, which is still at its price
\* with its candle as it was but for the volume, and the last request failed
C38_Witness ==
    \E s \in DOMAIN registered_tokens :
        LET token == registered_tokens[s]
            n == Len(token.candlestick_data)
        IN  /\ Len(token.trades) = 2
            /\ token.trades[1].type = "BUY"
            /\ token.trades[2].type = "SELL"
            /\ token.price = SeedPrice
            /\ token.candlestick_data[n].close = SeedPrice
            /\ token.candlestick_data[n].volume > 0
            /\ ret \notin {"success", "ValueError", "None"}

----------------------------------------------------------------------------
(* Properties of the store under the daily update *)

\* C40: when a daily update cycle of a symbol completes, the store it wrote
\* holds every registered token, each with the price, the emission and the
\* series it has in memory at that moment; no update cycle writes a store
\* with fewer tokens than are registered
C40_UpdatePersistsAllTokens ==
    [][ \A s \in Tokens, new_emissions \in Emissions :
          DailyUpdate(s, new_emissions) =>
              /\ DOMAIN storage_file'.tokens = DOMAIN registered_tokens'
              /\ \A x \in DOMAIN registered_tokens' :
                    /\ x \in DOMAIN storage_file'.tokens
                    /\ storage_file'.tokens[x] =
                          TokenData(registered_tokens'[x])
      ]_vars

====
